---------------------------- MODULE Spec2Model ----------------------------
(***************************************************************************)
(* Friday Bazar payments bot: the JSON store (src/src/services/db.py), the *)
(* order handlers (src/src/handlers/payment.py, src/src/handlers/admin.py) *)
(* and the persistence loop, as a state machine.                           *)
(*                                                                         *)
(* Conventions.                                                            *)
(*  - Money (Python floats with two decimals) is counted in hundredths of  *)
(*    a rupee: 149.0 is 14900, the commission 14.90 is 1490.               *)
(*  - A Python Optional value is None == <<>> or Some(x) == <<x>>.         *)
(*  - A dict is a function from its keys; dict.update is Update.           *)
(*  - An asyncio task is an entry of pc; one action is the code between    *)
(*    two suspension points (an await that really yields).  Acquiring the  *)
(*    asyncio.Lock yields only when the lock is held or has waiters.       *)
(***************************************************************************)
EXTENDS Integers, Sequences, FiniteSets, TLC

VARIABLES
    users,          \* Database._users: user key -> user dict
    orders,         \* Database._orders: list of order dicts
    users_dirty,    \* Database._users_dirty
    orders_dirty,   \* Database._orders_dirty
    lock,           \* Database._lock: "free" or the task holding it
    lockq,          \* Database._lock._waiters, FIFO
    users_file,     \* data/users.json
    orders_file,    \* data/orders.json
    running,        \* Database._running
    pc,             \* task -> position in its coroutine
    json_str,       \* _write_file's local json_str of the write in progress
    fsm,            \* aiogram FSM storage: chat user -> state and data
    sent,           \* messages handed to the messaging gateway, per kind
    hist,           \* history (not program state): facts the claims refer to
    sm,             \* SettingsManager: _settings, _services and their two files
    antispam        \* AntiSpamMiddleware.message_history, the clock, what was let through

vars == <<users, orders, users_dirty, orders_dirty, lock, lockq, users_file,
          orders_file, running, pc, json_str, fsm, sent, hist, sm, antispam>>

-----------------------------------------------------------------------------
(* Bounds of the model *)

MaxOrders == 2          \* orders in the table
MaxCredits == 1         \* direct add_coins calls a user receives
MaxCrashes == 1         \* process crashes explored
MaxWriteFaults == 1     \* file-system faults explored
MaxTime == 5            \* seconds the clock of the anti-spam model runs
MaxMessages == 4        \* messages a user sends to the anti-spam model

\* AntiSpamMiddleware(rate_limit, time_window): the parameters, scaled down
\* from the 10 messages per 60 seconds of main.py.
rate_limit == 2
time_window == 3

(* Program constants *)

REFERRAL_COMMISSION_PERCENT == 10
PAYMENT_TIMEOUT_MINUTES == 10           \* the default of the environment variable
ID_WIDTH == 6

-----------------------------------------------------------------------------
(* Python values *)

None == << >>
Some(x) == <<x>>

\* `not v` for an Optional[int]: None and 0 are both falsy.
Falsy(v) == v = None \/ v = Some(0)

\* dict.update(u): keys of u are added or overwritten.
Update(d, u) == [k \in DOMAIN d \cup DOMAIN u |-> IF k \in DOMAIN u THEN u[k] ELSE d[k]]

\* d[key] = value on a dict of dicts.
Put(d, key, value) == [k \in DOMAIN d \cup {key} |-> IF k = key THEN value ELSE d[k]]

EmptyDict == [k \in {} |-> None]


-----------------------------------------------------------------------------
(* Identifiers *)

UserIds == {1, 2}               \* Telegram users known to the model: 1 the buyer, 2 a referrer
AdminId == 3                    \* the one entry of ADMIN_IDS
ReferrerArgs == {0, 1, 2}       \* what int(args[1].replace("ref_", "")) can yield in cmd_start

\* str(user_id): the key of a user in Database._users.
user_key(user_id) == <<"str", user_id>>

RECURSIVE Digits(_)
Digits(n) == IF n < 10 THEN <<n>> ELSE Append(Digits(n \div 10), n % 10)

RECURSIVE ZeroPad(_, _)
ZeroPad(ds, w) == IF Len(ds) >= w THEN ds ELSE ZeroPad(<<0>> \o ds, w)

\* f"FBP{n:06d}"
FormatOrderId(n) == [prefix |-> "FBP", digits |-> ZeroPad(Digits(n), ID_WIDTH)]

RECURSIVE DigitsValue(_)
DigitsValue(ds) ==
    IF ds = << >> THEN 0
    ELSE 10 * DigitsValue(SubSeq(ds, 1, Len(ds) - 1)) + ds[Len(ds)]

\* The number an order ID parses to.
ParseOrderId(id) == DigitsValue(id.digits)

-----------------------------------------------------------------------------
(* json.dumps / json.loads.  A JSON value is <<"null">>, <<"value", v>> or  *)
(* <<"array", list>>; a JSON object maps keys to JSON values.  The fields   *)
(* joined_at, created_at, language, username, service_id and plan_duration  *)
(* are plain strings no operation reads back, and are left out of the      *)
(* records.                                                                *)

OptionalFields == {"referred_by", "email", "subscription_service",
                   "payment_screenshot", "user_details", "user_email"}
ListFields == {"purchases"}

RECURSIVE json_dumps_dict(_)
json_dumps_value(k, v) ==
    IF k \in ListFields THEN <<"array", [i \in DOMAIN v |-> json_dumps_dict(v[i])]>>
    ELSE IF k \in OptionalFields
         THEN IF v = None THEN <<"null">> ELSE <<"value", v[1]>>
         ELSE <<"value", v>>

json_dumps_dict(d) == [k \in DOMAIN d |-> json_dumps_value(k, d[k])]

\* json.dumps writes every dict key as a string.
json_key(k) == <<"str", k[2]>>

json_dumps_users(U) ==
    [kind |-> "json",
     doc  |-> [jk \in {json_key(k) : k \in DOMAIN U} |->
                 json_dumps_dict(U[CHOOSE k \in DOMAIN U : json_key(k) = jk])]]

json_dumps_orders(O) ==
    [kind |-> "json", doc |-> [i \in DOMAIN O |-> json_dumps_dict(O[i])]]

RECURSIVE json_loads_dict(_)
json_loads_value(k, j) ==
    IF j[1] = "array" THEN [i \in DOMAIN j[2] |-> json_loads_dict(j[2][i])]
    ELSE IF j[1] = "null" THEN None
    ELSE IF k \in OptionalFields THEN Some(j[2])
    ELSE j[2]

json_loads_dict(o) == [k \in DOMAIN o |-> json_loads_value(k, o[k])]

json_loads(doc) == [k \in DOMAIN doc |-> json_loads_dict(doc[k])]

(* Files.  A file is absent, empty (opened with 'w' and nothing written),   *)
(* partial (a write that did not complete: not parseable) or a JSON text.   *)

AbsentFile == [kind |-> "absent", doc |-> << >>]
EmptyFile == [kind |-> "empty", doc |-> << >>]
PartialFile == [kind |-> "partial", doc |-> << >>]

\* A _read_file that hands the caller the failure instead of the default
\* (checked against C20).
read_file_strict(file, default) ==
    IF file.kind = "json" THEN json_loads(file.doc) ELSE [error |-> file.kind]

\* Database._read_file: empty content and every exception give the default.
read_file(file, default) ==
    IF file.kind = "json" THEN json_loads(file.doc) ELSE default

\* What Database.initialize loads: a missing file is created and read as empty.
LoadUsers(file) == IF file.kind = "absent" THEN EmptyDict ELSE read_file(file, EmptyDict)
LoadOrders(file) == IF file.kind = "absent" THEN << >> ELSE read_file(file, << >>)

-----------------------------------------------------------------------------
(* Store operations, as functions of the tables.  Each runs under          *)
(* Database._lock with no suspension point inside.                         *)

new_user(user_id) ==
    [user_id |-> user_id, coins |-> 0, total_referrals |-> 0, total_earned |-> 0,
     referred_by |-> None, purchases |-> << >>, email |-> None,
     subscription_service |-> None, subscription_status |-> "none"]

\* A get_user that creates the record without looking first (checked
\* against C18).
db_get_user_unchecked(U, user_id) ==
    [ok |-> TRUE, users |-> Put(U, user_key(user_id), new_user(user_id))]

\* get_user under the lock: get-or-create.
db_get_user(U, user_id) ==
    IF user_key(user_id) \in DOMAIN U
    THEN [ok |-> FALSE, users |-> U]
    ELSE [ok |-> TRUE, users |-> Put(U, user_key(user_id), new_user(user_id))]

db_update_user(U, user_id, updates) ==
    IF user_key(user_id) \in DOMAIN U
    THEN [ok |-> TRUE,
          users |-> Put(U, user_key(user_id), Update(U[user_key(user_id)], updates))]
    ELSE [ok |-> FALSE, users |-> U]

db_set_referrer(U, user_id, referrer_id) ==
    IF user_key(user_id) \in DOMAIN U /\ Falsy(U[user_key(user_id)].referred_by)
    THEN [ok |-> TRUE,
          users |-> Put(U, user_key(user_id),
                        [U[user_key(user_id)] EXCEPT !.referred_by = Some(referrer_id)])]
    ELSE [ok |-> FALSE, users |-> U]

\* An add_coins that opens an account for an unknown user (checked against
\* C19).
db_add_coins_upsert(U, user_id, amount) ==
    LET record == IF user_key(user_id) \in DOMAIN U THEN U[user_key(user_id)]
                  ELSE new_user(user_id)
    IN  [ok |-> TRUE,
         users |-> Put(U, user_key(user_id),
                       [record EXCEPT !.coins = @ + amount, !.total_earned = @ + amount])]

db_add_coins(U, user_id, amount) ==
    IF user_key(user_id) \in DOMAIN U
    THEN [ok |-> TRUE,
          users |-> Put(U, user_key(user_id),
                        [U[user_key(user_id)] EXCEPT !.coins = @ + amount,
                                                     !.total_earned = @ + amount])]
    ELSE [ok |-> FALSE, users |-> U]

db_increment_referral_count(U, user_id) ==
    IF user_key(user_id) \in DOMAIN U
    THEN [ok |-> TRUE,
          users |-> Put(U, user_key(user_id),
                        [U[user_key(user_id)] EXCEPT !.total_referrals = @ + 1])]
    ELSE [ok |-> FALSE, users |-> U]

db_add_purchase_to_user(U, user_id, order_id, amount) ==
    IF user_key(user_id) \in DOMAIN U
    THEN [ok |-> TRUE,
          users |-> Put(U, user_key(user_id),
                        [U[user_key(user_id)] EXCEPT
                            !.purchases = Append(@, [order_id |-> order_id, amount |-> amount])])]
    ELSE [ok |-> FALSE, users |-> U]

\* An ID scheme that numbers the orders from zero (checked against C5).
next_order_id_from_zero(O) == FormatOrderId(Len(O))

\* The ID create_order assigns.
next_order_id(O) == FormatOrderId(Len(O) + 1)

\* create_order: {"order_id": ..., "status": "pending", **order_data}.
db_create_order(O, order_data) ==
    Append(O, Update([order_id |-> next_order_id(O), status |-> "pending"], order_data))

\* get_order: the first order with this ID (0: None).
order_index(O, order_id) ==
    IF \E i \in DOMAIN O : O[i].order_id = order_id
    THEN CHOOSE i \in DOMAIN O : O[i].order_id = order_id /\
                                 \A j \in DOMAIN O : O[j].order_id = order_id => i <= j
    ELSE 0

db_update_order(O, order_id, updates) ==
    IF order_index(O, order_id) # 0
    THEN [ok |-> TRUE,
          orders |-> [O EXCEPT ![order_index(O, order_id)] = Update(@, updates)]]
    ELSE [ok |-> FALSE, orders |-> O]

\* round((amount * percent) / 100, 2), on hundredths: to the nearest
\* hundredth, ties to even.
calculate_commission(amount, percent) ==
    LET n == amount * percent
        q == n \div 100
        r == n % 100
    IN  IF r > 50 \/ (r = 50 /\ q % 2 = 1) THEN q + 1 ELSE q

-----------------------------------------------------------------------------
(* Tasks and the lock *)

FlushTasks == {"persist", "main"}       \* who runs _save_dirty_data: the loop, shutdown()
ApproveTasks == {"approve1", "approve2"}  \* two admin_approve invocations
CommissionTasks == {"commission1", "commission2"}  \* two process_referral_commission calls
GetUserTasks == {"getuser1", "getuser2", "getuser3"}  \* concurrent get_user calls
HandlerTasks == ApproveTasks \cup CommissionTasks \cup GetUserTasks \cup
                {"create", "timer", "screenshot", "reject", "cancel", "details", "caller"}
Tasks == FlushTasks \cup HandlerTasks

\* asyncio.Lock.acquire returns at once, without yielding, only when the lock
\* is free and no one waits for it.
CanAcquireNow == lock = "free" /\ lockq = << >>

\* A waiter resumes when the lock is free and it is first in line.
CanResume(t) == lock = "free" /\ lockq # << >> /\ Head(lockq) = t

Up == pc["main"] = "up"

\* History: crashes and file-system faults so far (they bound the model);
\* whether a write of the current or last flush failed; what the last flush
\* whose writes all succeeded made durable (user keys, number of orders).
\* `timeout` is the PAYMENT_TIMEOUT_MINUTES the process was started with.
InitialHist == [crashes |-> 0, faults |-> 0, flush_ok |-> TRUE,
                durable_users |-> {}, durable_orders |-> 0,
                timeout |-> PAYMENT_TIMEOUT_MINUTES]

\* Messages handed to the gateway about the order under test, counted per kind.
NoMessages == [verification |-> 0, expired |-> 0, approved |-> 0, rejected |-> 0,
               warning |-> 0]

\* SettingsManager.__init__: empty caches; no file of its own exists yet.
\* menu_cache is menus._services_grid_cache, the keyboard built from the catalog.
InitialSettingsManager ==
    [settings |-> EmptyDict, services |-> EmptyDict,
     settings_file |-> [kind |-> "absent", doc |-> EmptyDict],
     services_file |-> [kind |-> "absent", doc |-> EmptyDict],
     initialized |-> FALSE, menu_cache |-> None]

\* AntiSpamMiddleware.__init__: no history.  `now` is what datetime.now()
\* returns; `handled` lists the times of the messages that were passed on to
\* a handler and `blocked` counts the messages that were not (neither is
\* program state).
InitialAntiSpam ==
    [message_history |-> [u \in UserIds \cup {AdminId} |-> << >>],
     now |-> 0,
     handled |-> [u \in UserIds \cup {AdminId} |-> << >>],
     blocked |-> [u \in UserIds \cup {AdminId} |-> 0]]

\* Database.__init__ in a fresh data directory; nothing runs yet.
DatabaseInit ==
    /\ users = EmptyDict
    /\ orders = << >>
    /\ users_dirty = FALSE
    /\ orders_dirty = FALSE
    /\ lock = "free"
    /\ lockq = << >>
    /\ users_file = AbsentFile
    /\ orders_file = AbsentFile
    /\ running = FALSE
    /\ pc = [t \in Tasks |-> IF t = "main" THEN "down" ELSE "idle"]
    /\ json_str = EmptyFile
    /\ fsm = [u \in UserIds \cup {AdminId} |-> None]
    /\ sent = NoMessages

\* The module-level singletons db and settings_manager, before startup.
Init ==
    /\ DatabaseInit
    /\ hist = InitialHist /\ sm = InitialSettingsManager /\ antispam = InitialAntiSpam

\* Database.initialize (main.on_startup): load both tables, creating missing
\* files, and start the persistence loop.
Initialize ==
    /\ pc["main"] \in {"down", "stopped"}
    /\ users' = LoadUsers(users_file)
    /\ orders' = LoadOrders(orders_file)
    /\ users_file' = IF users_file.kind = "absent" THEN json_dumps_users(EmptyDict) ELSE users_file
    /\ orders_file' = IF orders_file.kind = "absent" THEN json_dumps_orders(<< >>) ELSE orders_file
    /\ users_dirty' = FALSE
    /\ orders_dirty' = FALSE
    /\ running' = TRUE
    /\ pc' = [t \in Tasks |-> IF t = "main" THEN "up" ELSE IF t = "persist" THEN "sleep" ELSE "idle"]
    /\ UNCHANGED <<lock, lockq, json_str, fsm, sent, hist, sm, antispam>>

-----------------------------------------------------------------------------
(* _save_dirty_data and _write_file.  The lock is held from the first      *)
(* dirty check to the end of the last write; every await of _write_file    *)
(* (json.dumps in the executor, aiofiles.open, f.write) is a suspension    *)
(* point.  json.dumps is submitted in the step that takes the lock.        *)

AfterFlush(t) == IF t = "persist" THEN "sleep" ELSE "stopped"

\* A flush that looks at the order table only.
BeginFlushOrdersOnly(t) ==
    IF orders_dirty
    THEN /\ lock' = t
         /\ json_str' = json_dumps_orders(orders)
         /\ pc' = [pc EXCEPT ![t] = "o_open"]
    ELSE /\ lock' = "free"
         /\ json_str' = json_str
         /\ pc' = [pc EXCEPT ![t] = AfterFlush(t)]

\* The lock is taken (or nothing is dirty: taken and released in one step).
BeginFlush(t) ==
    IF users_dirty
    THEN /\ lock' = t
         /\ json_str' = json_dumps_users(users)
         /\ pc' = [pc EXCEPT ![t] = "u_open"]
    ELSE IF orders_dirty
    THEN /\ lock' = t
         /\ json_str' = json_dumps_orders(orders)
         /\ pc' = [pc EXCEPT ![t] = "o_open"]
    ELSE /\ lock' = "free"
         /\ json_str' = json_str
         /\ pc' = [pc EXCEPT ![t] = AfterFlush(t)]

FlushReady(t) ==
    \/ t = "persist" /\ pc[t] = "sleep" /\ running
    \/ t = "main" /\ pc[t] = "final"

\* asyncio.sleep(5) is over (or shutdown reached its final save): take the lock.
FlushEnter(t) ==
    /\ FlushReady(t)
    /\ IF CanAcquireNow
       THEN BeginFlush(t) /\ lockq' = lockq /\ sm' = sm /\ antispam' = antispam /\ hist' = [hist EXCEPT !.flush_ok = TRUE]
       ELSE /\ lockq' = Append(lockq, t)
            /\ pc' = [pc EXCEPT ![t] = "lock_wait"]
            /\ UNCHANGED <<lock, json_str, hist, sm, antispam>>
    /\ UNCHANGED <<users, orders, users_dirty, orders_dirty, users_file, orders_file,
                   running, fsm, sent>>

FlushResume(t) ==
    /\ pc[t] = "lock_wait"
    /\ CanResume(t)
    /\ lockq' = Tail(lockq)
    /\ BeginFlush(t)
    /\ sm' = sm /\ antispam' = antispam /\ hist' = [hist EXCEPT !.flush_ok = TRUE]
    /\ UNCHANGED <<users, orders, users_dirty, orders_dirty, users_file, orders_file,
                   running, fsm, sent>>

\* Whether a failed write leaves the table's dirty flag set.  The code clears
\* the flag after _write_file returns, and _write_file returns normally after
\* a failure too (it catches and logs every Exception).
DirtyAfterFailedWrite == FALSE

\* _write_file returned: the caller sets the table's dirty flag to `dirty`
\* and goes on to the next table or releases the lock.
WriteReturns(t, table, dirty) ==
    IF table = "users"
    THEN /\ users_dirty' = dirty
         /\ orders_dirty' = orders_dirty
         /\ IF orders_dirty
            THEN /\ json_str' = json_dumps_orders(orders)
                 /\ pc' = [pc EXCEPT ![t] = "o_open"]
                 /\ lock' = lock
            ELSE /\ json_str' = EmptyFile
                 /\ pc' = [pc EXCEPT ![t] = AfterFlush(t)]
                 /\ lock' = "free"
    ELSE /\ orders_dirty' = dirty
         /\ users_dirty' = users_dirty
         /\ json_str' = EmptyFile
         /\ pc' = [pc EXCEPT ![t] = AfterFlush(t)]
         /\ lock' = "free"

TableOf(p) == IF p \in {"u_open", "u_write"} THEN "users" ELSE "orders"

\* aiofiles.open(filepath, 'w') succeeds: the file is truncated.
WriteOpen(t) ==
    /\ pc[t] \in {"u_open", "o_open"}
    /\ IF pc[t] = "u_open"
       THEN users_file' = EmptyFile /\ orders_file' = orders_file
       ELSE orders_file' = EmptyFile /\ users_file' = users_file
    /\ pc' = [pc EXCEPT ![t] = IF pc[t] = "u_open" THEN "u_write" ELSE "o_write"]
    /\ UNCHANGED <<users, orders, users_dirty, orders_dirty, lock, lockq, running,
                   json_str, fsm, sent, hist, sm, antispam>>

\* aiofiles.open raises (the file is untouched); _write_file logs and returns.
WriteOpenFails(t) ==
    /\ pc[t] \in {"u_open", "o_open"}
    /\ hist.faults < MaxWriteFaults
    /\ WriteReturns(t, TableOf(pc[t]), DirtyAfterFailedWrite)
    /\ sm' = sm /\ antispam' = antispam /\ hist' = [hist EXCEPT !.faults = @ + 1, !.flush_ok = FALSE]
    /\ UNCHANGED <<users, orders, users_file, orders_file, lockq, running, fsm, sent>>

\* f.write(json_str) succeeds and the file is closed.
WriteData(t) ==
    /\ pc[t] \in {"u_write", "o_write"}
    /\ IF pc[t] = "u_write"
       THEN users_file' = json_str /\ orders_file' = orders_file
       ELSE orders_file' = json_str /\ users_file' = users_file
    /\ WriteReturns(t, TableOf(pc[t]), FALSE)
    /\ sm' = sm /\ antispam' = antispam /\ hist' = IF pc[t] = "u_write"
               THEN [hist EXCEPT !.durable_users = DOMAIN json_loads(json_str.doc)]
               ELSE [hist EXCEPT !.durable_orders = Len(json_loads(json_str.doc))]
    /\ UNCHANGED <<users, orders, lockq, running, fsm, sent>>

\* f.write raises part-way (disk full, I/O error): the file is left partial.
WriteDataFails(t) ==
    /\ pc[t] \in {"u_write", "o_write"}
    /\ hist.faults < MaxWriteFaults
    /\ IF pc[t] = "u_write"
       THEN users_file' = PartialFile /\ orders_file' = orders_file
       ELSE orders_file' = PartialFile /\ users_file' = users_file
    /\ WriteReturns(t, TableOf(pc[t]), DirtyAfterFailedWrite)
    /\ sm' = sm /\ antispam' = antispam /\ hist' = [hist EXCEPT !.faults = @ + 1, !.flush_ok = FALSE]
    /\ UNCHANGED <<users, orders, lockq, running, fsm, sent>>

-----------------------------------------------------------------------------
(* Process lifecycle: crash, shutdown *)

\* The process dies (kill, power loss): memory is gone, the files stay as
\* they are at this moment.  A file opened with 'w' whose write has not
\* happened is empty; a partly written one reads back like an empty one.
Crash ==
    /\ pc["main"] \notin {"down", "stopped"}
    /\ hist.crashes < MaxCrashes
    /\ users' = EmptyDict
    /\ orders' = << >>
    /\ users_dirty' = FALSE
    /\ orders_dirty' = FALSE
    /\ lock' = "free"
    /\ lockq' = << >>
    /\ running' = FALSE
    /\ pc' = [t \in Tasks |-> IF t = "main" THEN "down" ELSE "idle"]
    /\ json_str' = EmptyFile
    /\ fsm' = [u \in DOMAIN fsm |-> None]
    /\ sm' = sm /\ antispam' = antispam /\ hist' = [hist EXCEPT !.crashes = @ + 1]
    /\ UNCHANGED <<users_file, orders_file, sent>>

\* Database.shutdown up to `await self._persistence_task`.
ShutdownBegin ==
    /\ Up
    /\ running' = FALSE
    /\ pc' = [pc EXCEPT !["main"] = "cancelling"]
    /\ UNCHANGED <<users, orders, users_dirty, orders_dirty, lock, lockq, users_file,
                   orders_file, json_str, fsm, sent, hist, sm, antispam>>

\* CancelledError is thrown into the persistence task at the await it is
\* suspended in.  It is no Exception, so _write_file does not catch it: the
\* dirty flag is not cleared, `async with` releases the lock and the loop
\* breaks.  The executor thread of an interrupted open or write may or may
\* not have done its work.
PersistCancelled ==
    /\ pc["main"] = "cancelling"
    /\ pc["persist"] # "done"
    /\ pc' = [pc EXCEPT !["persist"] = "done", !["main"] = "final"]
    /\ lockq' = SelectSeq(lockq, LAMBDA t : t # "persist")
    /\ lock' = IF lock = "persist" THEN "free" ELSE lock
    /\ json_str' = IF lock = "persist" THEN EmptyFile ELSE json_str
    /\ \/ UNCHANGED <<users_file, orders_file>>
       \/ /\ pc["persist"] \in {"u_open", "u_write"}
          /\ users_file' \in {EmptyFile} \cup (IF pc["persist"] = "u_write" THEN {json_str} ELSE {})
          /\ users_file' # users_file
          /\ orders_file' = orders_file
       \/ /\ pc["persist"] \in {"o_open", "o_write"}
          /\ orders_file' \in {EmptyFile} \cup (IF pc["persist"] = "o_write" THEN {json_str} ELSE {})
          /\ orders_file' # orders_file
          /\ users_file' = users_file
    /\ UNCHANGED <<users, orders, users_dirty, orders_dirty, running, fsm, sent, hist, sm, antispam>>

-----------------------------------------------------------------------------
(* Store calls made directly (a handler that makes a single call).  A      *)
(* caller that finds the lock taken waits; the call then runs as one step. *)

PaymentOrderData(user_id, amount) ==
    [user_id |-> user_id, service_name |-> "YouTube Premium", amount |-> amount,
     payment_screenshot |-> None, user_details |-> None]

FreeOrderData(user_id) ==
    [user_id |-> user_id, service_name |-> "YouTube Premium", amount |-> 0,
     status |-> "approved", user_details |-> Some("mail")]

Price == 149 * 100      \* 149.00, the amount of the paid orders of the model

Commission == calculate_commission(Price, REFERRAL_COMMISSION_PERCENT)

CallGetUser(user_id) ==
    /\ Up /\ CanAcquireNow
    /\ LET res == db_get_user(users, user_id)
       IN  /\ users' = res.users
           /\ users_dirty' = (users_dirty \/ res.ok)
    /\ UNCHANGED <<orders, orders_dirty, lock, lockq, users_file, orders_file, running,
                   pc, json_str, fsm, sent, hist, sm, antispam>>

CallSetReferrer(user_id, referrer_id) ==
    /\ Up /\ CanAcquireNow
    /\ LET res == db_set_referrer(users, user_id, referrer_id)
       IN  /\ users' = res.users
           /\ users_dirty' = (users_dirty \/ res.ok)
    /\ UNCHANGED <<orders, orders_dirty, lock, lockq, users_file, orders_file, running,
                   pc, json_str, fsm, sent, hist, sm, antispam>>

CallAddCoins(user_id, amount) ==
    /\ Up /\ CanAcquireNow
    /\ user_key(user_id) \in DOMAIN users => users[user_key(user_id)].coins < MaxCredits * amount
    /\ LET res == db_add_coins(users, user_id, amount)
       IN  /\ users' = res.users
           /\ users_dirty' = (users_dirty \/ res.ok)
    /\ UNCHANGED <<orders, orders_dirty, lock, lockq, users_file, orders_file, running,
                   pc, json_str, fsm, sent, hist, sm, antispam>>

CallCreateOrder(order_data) ==
    /\ Up /\ CanAcquireNow
    /\ Len(orders) < MaxOrders
    /\ orders' = db_create_order(orders, order_data)
    /\ orders_dirty' = TRUE
    /\ UNCHANGED <<users, users_dirty, lock, lockq, users_file, orders_file, running,
                   pc, json_str, fsm, sent, hist, sm, antispam>>

CallUpdateOrder(order_id, updates) ==
    /\ Up /\ CanAcquireNow
    /\ LET res == db_update_order(orders, order_id, updates)
       IN  /\ orders' = res.orders
           /\ orders_dirty' = (orders_dirty \/ res.ok)
    /\ UNCHANGED <<users, users_dirty, lock, lockq, users_file, orders_file, running,
                   pc, json_str, fsm, sent, hist, sm, antispam>>

-----------------------------------------------------------------------------
(* The store with its persistence loop, crashes and shutdown *)

NextStore ==
    \/ Initialize
    \/ Crash
    \/ ShutdownBegin
    \/ PersistCancelled
    \/ \E t \in FlushTasks : FlushEnter(t)
    \/ \E t \in FlushTasks : WriteOpen(t)
    \/ \E t \in FlushTasks : WriteOpenFails(t)
    \/ \E t \in FlushTasks : WriteData(t)
    \/ \E t \in FlushTasks : WriteDataFails(t)
    \/ CallGetUser(2)
    \/ CallAddCoins(2, Commission)
    \/ CallCreateOrder(PaymentOrderData(1, Price))
    \/ CallUpdateOrder(FormatOrderId(1), [status |-> "cancelled"])

SpecStore == Init /\ [][NextStore]_vars

-----------------------------------------------------------------------------
(* Claims about the persistence of the store (SpecStore) *)

FlushPositions == {"u_open", "u_write", "o_open", "o_write"}

\* A step in which a write of task t fails and _write_file returns.
WriteFailsStep(t) == pc[t] \in FlushPositions /\ hist'.faults = hist.faults + 1

\* C6: a flush attempt whose file write fails does not clear the table's
\* dirty flag; the flag is cleared only after a write that succeeded.
C6_FailedWriteKeepsDirty ==
    [][\A t \in FlushTasks :
          WriteFailsStep(t) =>
              IF TableOf(pc[t]) = "users" THEN users_dirty' ELSE orders_dirty']_vars

\* A step in which task t's _save_dirty_data returns normally.
FlushReturnsStep(t) ==
    /\ pc[t] \in FlushPositions \cup {"lock_wait", "final"}
    /\ pc'[t] = AfterFlush(t)

\* What a fresh Database.initialize would load from the files equals the
\* tables in memory.
FreshLoadEqualsMemory ==
    /\ LoadUsers(users_file) = users
    /\ LoadOrders(orders_file) = orders

\* C7: after a store mutation followed by a forced flush (one none of whose
\* writes failed), initializing a fresh store from the files yields tables
\* equal to the in-memory tables at the time of the flush.
C7_FlushThenLoadRoundTrip ==
    [][\A t \in FlushTasks :
          (FlushReturnsStep(t) /\ hist'.flush_ok) => FreshLoadEqualsMemory']_vars

\* C8: whatever the moment of a crash (no write ever failed), the state the
\* next initialize recovers is no older than the last completed flush: every
\* user and every order that flush wrote is recovered.
C8_CrashLosesOnlyUnflushed ==
    [][(Initialize /\ hist.faults = 0) =>
          /\ hist.durable_users \subseteq DOMAIN users'
          /\ hist.durable_orders <= Len(orders')]_vars

\* C9: when shutdown() returns (its final flush had no failing write), the
\* persistence loop no longer runs, both dirty flags are clear and the files
\* hold every mutation made before.
C9_ShutdownFlushesEverything ==
    (pc["main"] = "stopped" /\ hist.flush_ok) =>
        /\ pc["persist"] = "done"
        /\ ~running
        /\ ~users_dirty /\ ~orders_dirty
        /\ FreshLoadEqualsMemory

\* Database.initialize completes in this step.
InitializeStep == pc["main"] \in {"down", "stopped"} /\ pc'["main"] = "up"

Unreadable(file) == file.kind \in {"empty", "partial"}

\* C20: a store initialized over a users or orders file that exists but
\* cannot be read or parsed starts with that table empty, exactly as if the
\* file had been absent, and initialization completes.
C20_UnreadableFileLoadsEmpty ==
    [][InitializeStep =>
          /\ Unreadable(users_file) =>
                 users' = LoadUsers(AbsentFile) /\ users' = EmptyDict
          /\ Unreadable(orders_file) =>
                 orders' = LoadOrders(AbsentFile) /\ orders' = << >>
          /\ running' /\ pc'["persist"] = "sleep"
          /\ ~users_dirty' /\ ~orders_dirty']_vars

\* The process was restarted over a users file that a failed write or a
\* crash had left unreadable: the store runs with an empty users table.
C20_RestartedOverUnreadableFile ==
    /\ Up
    /\ Unreadable(users_file)
    /\ users = EmptyDict
    /\ ~users_dirty
    /\ lock = "free"
    /\ hist.durable_users # {}

-----------------------------------------------------------------------------
(* The store operations called in any order (SpecOps).  Every operation    *)
(* runs to its end under the lock, so concurrent callers are serialized: a *)
(* behaviour is an arbitrary interleaving of whole calls.                  *)

\* user.cmd_start with "/start" (arg = None) or "/start ref_<n>" (arg =
\* Some(n)): set_referrer unless self-referral, then get_user.
\* A /start handler that passes every referral argument on to set_referrer.
CmdStartAnyReferrer(user_id, arg) ==
    /\ Up /\ CanAcquireNow
    /\ LET U1 == IF arg # None
                 THEN db_set_referrer(users, user_id, arg[1])
                 ELSE [ok |-> FALSE, users |-> users]
           U2 == db_get_user(U1.users, user_id)
       IN  /\ users' = U2.users
           /\ users_dirty' = (users_dirty \/ U1.ok \/ U2.ok)
    /\ UNCHANGED <<orders, orders_dirty, lock, lockq, users_file, orders_file, running,
                   pc, json_str, fsm, sent, hist, sm, antispam>>

CmdStart(user_id, arg) ==
    /\ Up /\ CanAcquireNow
    /\ LET U1 == IF arg # None /\ arg[1] # user_id
                 THEN db_set_referrer(users, user_id, arg[1])
                 ELSE [ok |-> FALSE, users |-> users]
           U2 == db_get_user(U1.users, user_id)
       IN  /\ users' = U2.users
           /\ users_dirty' = (users_dirty \/ U1.ok \/ U2.ok)
    /\ UNCHANGED <<orders, orders_dirty, lock, lockq, users_file, orders_file, running,
                   pc, json_str, fsm, sent, hist, sm, antispam>>

\* Partial fields a caller may pass to update_user.
UserUpdates == {[email |-> Some("mail")], [referred_by |-> None]} \cup
               {[referred_by |-> Some(r)] : r \in ReferrerArgs}

CallUpdateUser(user_id, updates) ==
    /\ Up /\ CanAcquireNow
    /\ LET res == db_update_user(users, user_id, updates)
       IN  /\ users' = res.users
           /\ users_dirty' = (users_dirty \/ res.ok)
    /\ UNCHANGED <<orders, orders_dirty, lock, lockq, users_file, orders_file, running,
                   pc, json_str, fsm, sent, hist, sm, antispam>>

NextOps ==
    \/ Initialize
    \/ \E u \in UserIds, updates \in UserUpdates : CallUpdateUser(u, updates)
    \/ \E u \in UserIds, r \in ReferrerArgs : CmdStart(u, Some(r))
    \/ \E u \in UserIds : CmdStart(u, None)
    \/ \E u \in UserIds, r \in ReferrerArgs : CallSetReferrer(u, r)
    \/ \E u \in UserIds : CallCreateOrder(PaymentOrderData(u, Price))
    \/ \E u \in UserIds : CallCreateOrder(FreeOrderData(u))

SpecOps == Init /\ [][NextOps]_vars

\* C4: once an existing user's referrer is set, a later set_referrer with any
\* referrer returns failure and no step changes the referrer (first write
\* wins).
C4_FirstReferrerWins ==
    [][\A u \in UserIds :
          (user_key(u) \in DOMAIN users /\ users[user_key(u)].referred_by # None) =>
              /\ users'[user_key(u)].referred_by = users[user_key(u)].referred_by
              /\ \A r \in ReferrerArgs : ~db_set_referrer(users, u, r).ok]_vars

\* C31: referrer immutability is enforced by the store itself: after a
\* user's referrer has been set (to a user ID other than 0, see C4), no store
\* operation with any arguments, update_user with arbitrary partial fields
\* included, changes or clears it.  update_user merges whatever it is given.
C31_StoreKeepsReferrer ==
    [][\A u \in UserIds :
          (user_key(u) \in DOMAIN users /\ ~Falsy(users[user_key(u)].referred_by)) =>
              /\ user_key(u) \in DOMAIN users'
              /\ users'[user_key(u)].referred_by = users[user_key(u)].referred_by]_vars

\* The /start flow alone: users arrive with and without referral links
\* while the persistence loop runs.
NextStart ==
    \/ Initialize
    \/ \E u \in UserIds, r \in ReferrerArgs : CmdStart(u, Some(r))
    \/ \E u \in UserIds : CmdStart(u, None)
    \/ FlushEnter("persist")
    \/ WriteOpen("persist")
    \/ WriteData("persist")

SpecStart == Init /\ [][NextStart]_vars

\* C38: no user is ever their own referrer: in every state reached through
\* the /start referral flow each user's referred_by is unset or the ID of a
\* different user.
C38_NoSelfReferral ==
    \A u \in UserIds :
        user_key(u) \in DOMAIN users => users[user_key(u)].referred_by # Some(u)

\* Both users are registered and one of them was referred by the other.
C38_ReferredByAnotherUser ==
    /\ \A u \in UserIds : user_key(u) \in DOMAIN users
    /\ \E u, v \in UserIds : u # v /\ users[user_key(u)].referred_by = Some(v)

\* C5: the k-th order created since the empty store has the ID FBP followed
\* by k zero-padded to six digits; the IDs are distinct and strictly
\* increasing in creation order, whoever the callers are.
C5_OrderIdsSequential ==
    \A k \in DOMAIN orders :
        /\ orders[k].order_id.prefix = "FBP"
        /\ Len(orders[k].order_id.digits) = ID_WIDTH
        /\ ParseOrderId(orders[k].order_id) = k
        /\ \A j \in DOMAIN orders :
              j < k => ParseOrderId(orders[j].order_id) < ParseOrderId(orders[k].order_id)

\* Two orders created for different users, one paid and one free.
C5_TwoOrdersCreated ==
    /\ Len(orders) >= 2
    /\ orders[1].user_id # orders[2].user_id
    /\ orders[1].status # orders[2].status

\* C17: every order stored by create_order has status pending immediately
\* after creation, whatever fields the caller passed, and its ID is the one
\* the store assigned.  The caller's fields are spread after the store's
\* (**order_data), so a status passed by the caller wins; receive_free_email
\* passes "approved".
C17_CreatedOrdersArePending ==
    [][Len(orders') = Len(orders) + 1 =>
          /\ orders'[Len(orders')].status = "pending"
          /\ orders'[Len(orders')].order_id = next_order_id(orders)]_vars

-----------------------------------------------------------------------------
(* One paid order and the handlers that act on it (SpecOrder).  A handler  *)
(* reads the order without the lock (get_order returns the live dict) and  *)
(* writes through update_order, which waits when the flush holds the lock  *)
(* or other callers are in line.  What a handler does between two          *)
(* suspension points is one step; the messages it sends after its last     *)
(* store call are counted in that step.                                    *)

Buyer == CHOOSE u \in UserIds : \A v \in UserIds : u <= v
Referrer == CHOOSE u \in UserIds : u # Buyer
OrderId == FormatOrderId(1)
TheOrder == orders[order_index(orders, OrderId)]
OrderExists == order_index(orders, OrderId) # 0

Terminal == {"approved", "rejected", "expired", "cancelled"}

WaitingForScreenshot == Some([state |-> "waiting_for_screenshot", order_id |-> OrderId])
WaitingForDetails == Some([state |-> "waiting_for_details", order_id |-> OrderId])

\* The bot is up, buyer and referrer have sent /start (the buyer with or
\* without the referrer's link); nothing is flushed yet.
OrderStart ==
    /\ \E r \in {None, Some(Referrer)} :
          users = Put(Put(EmptyDict, user_key(Referrer), new_user(Referrer)),
                      user_key(Buyer), [new_user(Buyer) EXCEPT !.referred_by = r])
    /\ orders = << >>
    /\ users_dirty = TRUE
    /\ orders_dirty = FALSE
    /\ lock = "free"
    /\ lockq = << >>
    /\ users_file = json_dumps_users(EmptyDict)
    /\ orders_file = json_dumps_orders(<< >>)
    /\ running = TRUE
    /\ pc = [t \in Tasks |-> IF t = "main" THEN "up" ELSE IF t = "persist" THEN "sleep" ELSE "idle"]
    /\ json_str = EmptyFile
    /\ fsm = [u \in UserIds \cup {AdminId} |-> None]
    /\ sent = NoMessages

InitOrder == OrderStart /\ hist = InitialHist /\ sm = InitialSettingsManager /\ antispam = InitialAntiSpam

\* The lock is taken: the caller gets in line and is suspended.
WaitForLock(t, position) ==
    /\ lockq' = Append(lockq, t)
    /\ pc' = [pc EXCEPT ![t] = position]
    /\ UNCHANGED <<users, orders, users_dirty, orders_dirty, lock, users_file, orders_file,
                   running, json_str, fsm, sent, hist, sm, antispam>>

\* update_order on the order under test; `done` is the handler's next position.
UpdateTheOrder(t, updates, done) ==
    /\ LET res == db_update_order(orders, OrderId, updates)
       IN  /\ orders' = res.orders
           /\ orders_dirty' = (orders_dirty \/ res.ok)
    /\ pc' = [pc EXCEPT ![t] = done]
    /\ UNCHANGED <<users, users_dirty, lock, users_file, orders_file, running, json_str, hist, sm, antispam>>

\* payment._create_payment_order: create_order, then the timer task starts.
CreateEffect ==
    /\ orders' = db_create_order(orders, PaymentOrderData(Buyer, Price))
    /\ orders_dirty' = TRUE
    /\ pc' = [pc EXCEPT !["create"] = "done", !["timer"] = "w1"]
    /\ UNCHANGED <<users, users_dirty, lock, users_file, orders_file, running, json_str,
                   fsm, sent, hist, sm, antispam>>

CreatePaymentOrder ==
    /\ Up /\ pc["create"] = "idle"
    /\ IF CanAcquireNow THEN CreateEffect /\ lockq' = lockq
                        ELSE WaitForLock("create", "wait")

CreateResume ==
    /\ pc["create"] = "wait" /\ CanResume("create")
    /\ lockq' = Tail(lockq)
    /\ CreateEffect

(* start_payment_timer.  Times are in seconds since the timer started.     *)

timeout_seconds(minutes) == minutes * 60

\* warnings: seconds before expiry each warning is meant for.
WarningTimes == <<300, 180, 60>>
FinalSleep == 60

\* wait_time of the i-th warning and what the loop sleeps for it.
wait_time(minutes, i) == timeout_seconds(minutes) - WarningTimes[i]
warning_sleep(minutes, i) == IF wait_time(minutes, i) > 0 THEN wait_time(minutes, i) ELSE 0

RECURSIVE slept_before(_, _)
\* What the loop has slept when it is about to handle warning i.
slept_before(minutes, i) ==
    IF i <= 1 THEN 0 ELSE slept_before(minutes, i - 1) + warning_sleep(minutes, i - 1)

\* When the i-th status re-check runs; when the final check runs.
warning_check_time(minutes, i) == slept_before(minutes, i + 1)
expiry_check_time(minutes) == slept_before(minutes, Len(WarningTimes) + 1) + FinalSleep

TimerPositions == <<"w1", "w2", "w3">>
WarningIndex(position) == CHOOSE i \in DOMAIN TimerPositions : TimerPositions[i] = position

\* The time the timer has slept so far, by its position.
timer_elapsed(minutes, position) ==
    IF position = "idle" THEN 0
    ELSE IF \E i \in DOMAIN TimerPositions : TimerPositions[i] = position
    THEN slept_before(minutes, WarningIndex(position))
    ELSE IF position = "final" THEN slept_before(minutes, Len(WarningTimes) + 1)
    ELSE expiry_check_time(minutes)

\* A warnings loop that warns after every sleep, pending or not (checked
\* against C28).
TimerWarnAlways ==
    /\ pc["timer"] \in {"w1", "w2", "w3"}
    /\ pc' = [pc EXCEPT !["timer"] = IF @ = "w1" THEN "w2" ELSE IF @ = "w2" THEN "w3" ELSE "final"]
    /\ sent' = IF wait_time(hist.timeout, CHOOSE i \in 1..3 : <<"w1", "w2", "w3">>[i] = pc["timer"]) > 0
               THEN [sent EXCEPT !.warning = @ + 1] ELSE sent
    /\ UNCHANGED <<users, orders, users_dirty, orders_dirty, lock, lockq, users_file,
                   orders_file, running, json_str, fsm, hist, sm, antispam>>

\* start_payment_timer, one pass of the warnings loop: if wait_time > 0,
\* sleep, re-check the status and warn if still pending.
TimerWarn ==
    /\ pc["timer"] \in {"w1", "w2", "w3"}
    /\ pc' = [pc EXCEPT !["timer"] = IF @ = "w1" THEN "w2" ELSE IF @ = "w2" THEN "w3" ELSE "final"]
    /\ sent' = IF /\ wait_time(hist.timeout, WarningIndex(pc["timer"])) > 0
                  /\ OrderExists /\ TheOrder.status = "pending"
               THEN [sent EXCEPT !.warning = @ + 1] ELSE sent
    /\ UNCHANGED <<users, orders, users_dirty, orders_dirty, lock, lockq, users_file,
                   orders_file, running, json_str, fsm, hist, sm, antispam>>

\* The timer's write and its expiry notification.
ExpireEffect ==
    /\ UpdateTheOrder("timer", [status |-> "expired"], "done")
    /\ sent' = [sent EXCEPT !.expired = @ + 1]
    /\ fsm' = fsm

\* start_payment_timer, after asyncio.sleep(60): the status is read, then
\* update_order.
TimerFinal ==
    /\ pc["timer"] = "final"
    /\ IF OrderExists /\ TheOrder.status = "pending"
       THEN IF CanAcquireNow THEN ExpireEffect /\ lockq' = lockq
                             ELSE WaitForLock("timer", "wait")
       ELSE /\ pc' = [pc EXCEPT !["timer"] = "done"]
            /\ UNCHANGED <<users, orders, users_dirty, orders_dirty, lock, lockq, users_file,
                           orders_file, running, json_str, fsm, sent, hist, sm, antispam>>

TimerResume ==
    /\ pc["timer"] = "wait" /\ CanResume("timer")
    /\ lockq' = Tail(lockq)
    /\ ExpireEffect

\* request_screenshot: only a pending order puts the buyer in the upload state.
RequestScreenshot ==
    /\ OrderExists /\ TheOrder.status = "pending"
    /\ fsm[Buyer] = None
    /\ fsm' = [fsm EXCEPT ![Buyer] = WaitingForScreenshot]
    /\ UNCHANGED <<users, orders, users_dirty, orders_dirty, lock, lockq, users_file,
                   orders_file, running, pc, json_str, sent, hist, sm, antispam>>

\* handle_screenshot: update_order whatever the status is, then the admin
\* notification and state.clear().
ScreenshotEffect ==
    /\ UpdateTheOrder("screenshot",
                      [status |-> "verification", payment_screenshot |-> Some("file_id")],
                      "done")
    /\ sent' = [sent EXCEPT !.verification = @ + 1]
    /\ fsm' = [fsm EXCEPT ![Buyer] = None]

HandleScreenshot ==
    /\ pc["screenshot"] = "idle"
    /\ fsm[Buyer] = WaitingForScreenshot
    /\ IF CanAcquireNow THEN ScreenshotEffect /\ lockq' = lockq
                        ELSE WaitForLock("screenshot", "wait")

ScreenshotResume ==
    /\ pc["screenshot"] = "wait" /\ CanResume("screenshot")
    /\ lockq' = Tail(lockq)
    /\ ScreenshotEffect

\* cancel_order: update_order whatever the status is.
CancelEffect ==
    /\ UpdateTheOrder("cancel", [status |-> "cancelled"], "done")
    /\ UNCHANGED <<fsm, sent>>

CancelOrder ==
    /\ pc["cancel"] = "idle"
    /\ OrderExists
    /\ IF CanAcquireNow THEN CancelEffect /\ lockq' = lockq
                        ELSE WaitForLock("cancel", "wait")

CancelResume ==
    /\ pc["cancel"] = "wait" /\ CanResume("cancel")
    /\ lockq' = Tail(lockq)
    /\ CancelEffect

\* admin_approve after its guard: update_order, the caption edit, the
\* "Payment Approved" message to the buyer and the admin's FSM state.  Its
\* last line, asyncio.create_task(process_referral_commission(order)), raises
\* NameError (admin.py does not import asyncio): the handler ends there and
\* process_referral_commission never runs.
ApproveEffect(t) ==
    /\ UpdateTheOrder(t, [status |-> "approved"], "done")
    /\ sent' = [sent EXCEPT !.approved = @ + 1]
    /\ fsm' = [fsm EXCEPT ![AdminId] = WaitingForDetails]

\* admin_approve: the admin presses the button of the verification
\* notification; the status is read, then update_order.
AdminApprove(t) ==
    /\ pc[t] = "idle"
    /\ sent.verification > 0
    /\ IF TheOrder.status # "verification"
       THEN /\ pc' = [pc EXCEPT ![t] = "done"]
            /\ UNCHANGED <<users, orders, users_dirty, orders_dirty, lock, lockq, users_file,
                           orders_file, running, json_str, fsm, sent, hist, sm, antispam>>
       ELSE IF CanAcquireNow THEN ApproveEffect(t) /\ lockq' = lockq
                             ELSE WaitForLock(t, "wait")

ApproveResume(t) ==
    /\ pc[t] = "wait" /\ CanResume(t)
    /\ lockq' = Tail(lockq)
    /\ ApproveEffect(t)

\* admin_reject: no check of the status.
RejectEffect ==
    /\ UpdateTheOrder("reject", [status |-> "rejected"], "done")
    /\ sent' = [sent EXCEPT !.rejected = @ + 1]
    /\ fsm' = fsm

AdminReject ==
    /\ pc["reject"] = "idle"
    /\ sent.verification > 0
    /\ IF CanAcquireNow THEN RejectEffect /\ lockq' = lockq
                        ELSE WaitForLock("reject", "wait")

RejectResume ==
    /\ pc["reject"] = "wait" /\ CanResume("reject")
    /\ lockq' = Tail(lockq)
    /\ RejectEffect

(* receive_user_details: the admin, in waiting_for_details, sends a text    *)
(* with an e-mail address.  message.from_user is the admin.  The store     *)
(* calls, in order, on a state S = [users, orders, users_dirty,            *)
(* orders_dirty]:                                                          *)
(*   1 update_user(email)   2 activate_subscription: update_user           *)
(*   3 activate_subscription: get_user   4 update_order   5 add_purchase   *)

DetailsCalls == 5
DetailsWait == <<"wait1", "wait2", "wait3", "wait4", "wait5">>

details_call(k, S) ==
    LET order == S.orders[order_index(S.orders, OrderId)]
        U == IF k = 1 THEN db_update_user(S.users, AdminId, [email |-> Some("mail")])
             ELSE IF k = 2
             THEN db_update_user(S.users, AdminId,
                                 [subscription_service |-> Some(order.service_name),
                                  subscription_status |-> "active"])
             ELSE IF k = 3 THEN db_get_user(S.users, AdminId)
             ELSE IF k = 5 THEN db_add_purchase_to_user(S.users, AdminId, OrderId, order.amount)
             ELSE [ok |-> FALSE, users |-> S.users]
        O == IF k = 4
             THEN db_update_order(S.orders, OrderId,
                                  [user_details |-> Some("mail"), user_email |-> Some("mail"),
                                   status |-> "fulfillment"])
             ELSE [ok |-> FALSE, orders |-> S.orders]
    IN  [users |-> U.users, orders |-> O.orders,
         users_dirty |-> (S.users_dirty \/ U.ok), orders_dirty |-> (S.orders_dirty \/ O.ok)]

\* get_user takes the lock only to create the record.
details_locks(k, S) == k # 3 \/ user_key(AdminId) \notin DOMAIN S.users

\* Calls k.. run without suspension while the lock can be taken at once;
\* `next` is the call that has to wait (DetailsCalls + 1: none).
RECURSIVE details_run(_, _, _)
details_run(k, S, free) ==
    IF k > DetailsCalls THEN [S |-> S, next |-> k]
    ELSE IF details_locks(k, S) /\ ~free THEN [S |-> S, next |-> k]
    ELSE details_run(k + 1, details_call(k, S), free)

\* After the calls: updated_order['subscription_expiry'] = ... is written
\* into the live order dict (no lock, no dirty flag), the messages go out
\* and state.clear() runs.
DetailsAdvance(r, q) ==
    /\ users' = r.S.users
    /\ users_dirty' = r.S.users_dirty
    /\ orders_dirty' = r.S.orders_dirty
    /\ IF r.next > DetailsCalls
       THEN /\ orders' = [r.S.orders EXCEPT ![order_index(r.S.orders, OrderId)] =
                              Update(@, [subscription_expiry |-> "expiry"])]
            /\ fsm' = [fsm EXCEPT ![AdminId] = None]
            /\ pc' = [pc EXCEPT !["details"] = "done"]
            /\ lockq' = q
       ELSE /\ orders' = r.S.orders
            /\ fsm' = fsm
            /\ pc' = [pc EXCEPT !["details"] = DetailsWait[r.next]]
            /\ lockq' = Append(q, "details")
    /\ UNCHANGED <<lock, users_file, orders_file, running, json_str, sent, hist, sm, antispam>>

StoreState == [users |-> users, orders |-> orders,
               users_dirty |-> users_dirty, orders_dirty |-> orders_dirty]

ReceiveUserDetails ==
    /\ pc["details"] = "idle"
    /\ fsm[AdminId] = WaitingForDetails
    /\ DetailsAdvance(details_run(1, StoreState, CanAcquireNow), lockq)

DetailsResume ==
    /\ \E k \in 1..DetailsCalls :
          /\ pc["details"] = DetailsWait[k]
          /\ CanResume("details")
          /\ DetailsAdvance(details_run(k + 1, details_call(k, StoreState), Tail(lockq) = << >>),
                            Tail(lockq))

NextOrder ==
    \/ CreatePaymentOrder
    \/ CreateResume
    \/ TimerWarn
    \/ TimerFinal
    \/ TimerResume
    \/ RequestScreenshot
    \/ HandleScreenshot
    \/ ScreenshotResume
    \/ CancelOrder
    \/ CancelResume
    \/ \E t \in ApproveTasks : AdminApprove(t)
    \/ \E t \in ApproveTasks : ApproveResume(t)
    \/ AdminReject
    \/ RejectResume
    \/ ReceiveUserDetails
    \/ DetailsResume
    \/ FlushEnter("persist")
    \/ FlushResume("persist")
    \/ WriteOpen("persist")
    \/ WriteData("persist")

SpecOrder == InitOrder /\ [][NextOrder]_vars

-----------------------------------------------------------------------------
(* Claims about the order's handlers (SpecOrder) *)

BuyerReferred == users[user_key(Buyer)].referred_by = Some(Referrer)

\* The referrer has been credited the commission of the order n times.
ReferrerCredited(n) ==
    /\ users[user_key(Referrer)].coins = n * Commission
    /\ users[user_key(Referrer)].total_earned = n * Commission
    /\ users[user_key(Referrer)].total_referrals = n

\* C1: for an order in verification whose buyer has a referrer, once two
\* concurrent invocations of the approval path have both ended, the
\* referrer's balance has grown by the commission exactly once and the
\* referral counter by exactly one.
C1_TwoApprovalsCreditOnce ==
    (/\ \A t \in ApproveTasks : pc[t] = "done"
     /\ sent.approved > 0
     /\ BuyerReferred) => ReferrerCredited(1)

\* C2: the screenshot upload and the expiry timer never both produce their
\* side effect for the order (the admin verification notification, the
\* user's expiry notification), and once both have acted the order is in
\* verification or expired unless an admin or a cancel acted on it.
C2_ScreenshotXorExpiry ==
    /\ ~(sent.verification > 0 /\ sent.expired > 0)
    /\ (/\ pc["timer"] = "done" /\ pc["screenshot"] = "done"
        /\ \A t \in ApproveTasks \cup {"reject", "cancel", "details"} : pc[t] = "idle")
           => TheOrder.status \in {"verification", "expired"}

\* C3: once an order is approved, rejected, expired or cancelled, no step
\* changes its status.
C3_TerminalStatusIsFinal ==
    [][\A i \in DOMAIN orders :
          orders[i].status \in Terminal => orders'[i].status = orders[i].status]_vars

\* C10: once the order of amount 149.00 is approved and its buyer has a
\* referrer, the referrer's coins and lifetime earnings have grown by
\* round(149.00 * 10 / 100, 2) = 14.90 and the referral count by 1.
C10_ApprovalCreditsCommission ==
    (/\ sent.approved > 0
     /\ BuyerReferred) =>
        /\ Commission = 1490
        /\ users[user_key(Referrer)].coins >= Commission
        /\ users[user_key(Referrer)].total_earned >= Commission
        /\ users[user_key(Referrer)].total_referrals >= 1

OrderStatuses == {"pending", "verification", "approved", "rejected", "expired", "cancelled"}

\* C22: in every reachable state, every order's status is one of pending,
\* verification, approved, rejected, expired, cancelled.
\* receive_user_details writes a seventh status, fulfillment.
C22_StatusIsOneOfSix ==
    \A i \in DOMAIN orders : orders[i].status \in OrderStatuses

\* The handler run by task t ends in this step (it has made its store call
\* or returned at its guard).
HandlerEnds(t) == pc[t] \in {"idle", "wait"} /\ pc'[t] = "done"

\* C23: an admin approval succeeds only for an order whose status is exactly
\* verification; an approval attempt on an order in any other status changes
\* no order field, no balance and no counter, and sends no approval message.
\* The status is read before the wait for the store lock and not again.
C23_ApprovalOnlyFromVerification ==
    [][\A t \in ApproveTasks :
          (HandlerEnds(t) /\ TheOrder.status # "verification") =>
             /\ orders' = orders
             /\ users' = users
             /\ sent'.approved = sent.approved]_vars

\* C24: an admin rejection changes an order's status to rejected only when
\* the order is exactly in verification; a rejection attempt on an order in
\* any other status leaves the order unchanged and sends no rejection
\* notice.  admin_reject reads no status.
C24_RejectionOnlyFromVerification ==
    [][(HandlerEnds("reject") /\ TheOrder.status # "verification") =>
          /\ orders' = orders
          /\ sent'.rejected = sent.rejected]_vars

\* C25: a user cancel changes an order's status to cancelled only when the
\* order is still pending; a cancel of an order in verification, approved,
\* rejected or expired leaves its status unchanged.  cancel_order reads no
\* status.
C25_CancelOnlyFromPending ==
    [][(HandlerEnds("cancel") /\ TheOrder.status \in OrderStatuses \ {"pending"}) =>
          TheOrder'.status = TheOrder.status]_vars

\* C26: a screenshot upload moves an order to verification (and notifies
\* the admins) only if the order is still pending when the upload is
\* processed; an upload arriving after the order expired, was cancelled or
\* was decided changes nothing.  handle_screenshot reads no status.
C26_UploadOnlyWhilePending ==
    [][(HandlerEnds("screenshot") /\ TheOrder.status # "pending") =>
          /\ orders' = orders
          /\ sent'.verification = sent.verification]_vars

\* C37: after an approval the fulfilment step is applied to the user who
\* owns the approved order: the user whose next message is consumed as
\* fulfilment details, whose subscription becomes active and whose purchase
\* history receives the order is the order's user_id, never the approving
\* admin or another user.
C37_FulfilmentIsForTheOwner ==
    OrderExists =>
        /\ \A u \in DOMAIN fsm : fsm[u] = WaitingForDetails => u = TheOrder.user_id
        /\ \A u \in DOMAIN fsm :
              (user_key(u) \in DOMAIN users /\ u # TheOrder.user_id) =>
                  /\ users[user_key(u)].subscription_status # "active"
                  /\ users[user_key(u)].purchases = << >>

\* C27: the timer's final step writes expired only if the order is pending
\* at the instant of the write, under every interleaving, the wait for the
\* store lock included.  The timer reads the status, then waits for the lock
\* in update_order, and writes without reading again.
C27_ExpiryWriteIsAtomic ==
    [][(/\ pc["timer"] \in {"final", "wait"}
        /\ pc'["timer"] = "done"
        /\ TheOrder.status # "pending") =>
          /\ TheOrder'.status = TheOrder.status
          /\ sent'.expired = sent.expired]_vars

\* C29: no file I/O is performed while the store's exclusive lock is held:
\* state is copied under the lock and written after the lock is released, so
\* no store mutation waits for a disk write to finish.  _save_dirty_data
\* awaits both _write_file calls inside `async with self._lock`.
C29_NoFileIoUnderLock ==
    \A t \in FlushTasks :
        pc[t] \in FlushPositions => (lock = "free" /\ lockq = << >>)

\* C30: user and order records are changed only inside store operations,
\* each of which sets the matching dirty flag; hence in every reachable
\* state where a table's dirty flag is clear and no write has failed, the
\* persisted table equals the table in memory.  receive_user_details writes
\* into the dict that get_order returned.
C30_CleanTableIsPersisted ==
    hist.faults = 0 =>
        /\ ~users_dirty => LoadUsers(users_file) = users
        /\ ~orders_dirty => LoadOrders(orders_file) = orders

-----------------------------------------------------------------------------
(* process_referral_commission invoked for the approved order (SpecLedger). *)
(* admin_approve never reaches it, so the invocations are the model's       *)
(* inputs.  Its store calls, in order:                                      *)
(*   1 get_user(buyer)   2 add_coins(referrer)   3 increment_referral_count *)
(*   4 update_order(referrer_id, commission_paid)   5 get_user(referrer),   *)
(*     for the notification text                                            *)
(* Calls 2..5 are made only if the buyer's referred_by is truthy.  The      *)
(* order's commission_paid is not read anywhere.                            *)

CommissionCalls == 5
CommissionWait == <<"wait1", "wait2", "wait3", "wait4", "wait5">>

ApprovedOrder ==
    db_update_order(db_create_order(<< >>, PaymentOrderData(Buyer, Price)), OrderId,
                    [status |-> "approved", payment_screenshot |-> Some("file_id")]).orders

\* The order of the buyer is approved; the buyer was referred or not, and
\* the referrer has a record or has never talked to the bot.
InitLedger ==
    /\ \E r \in {None, Some(Referrer)}, known \in BOOLEAN :
          users = LET B == Put(EmptyDict, user_key(Buyer),
                               [new_user(Buyer) EXCEPT !.referred_by = r])
                  IN  IF known THEN Put(B, user_key(Referrer), new_user(Referrer)) ELSE B
    /\ orders = ApprovedOrder
    /\ users_dirty = TRUE
    /\ orders_dirty = TRUE
    /\ lock = "free"
    /\ lockq = << >>
    /\ users_file = json_dumps_users(EmptyDict)
    /\ orders_file = json_dumps_orders(<< >>)
    /\ running = TRUE
    /\ pc = [t \in Tasks |-> IF t = "main" THEN "up" ELSE IF t = "persist" THEN "sleep" ELSE "idle"]
    /\ json_str = EmptyFile
    /\ fsm = [u \in UserIds \cup {AdminId} |-> None]
    /\ sent = NoMessages
    /\ hist = InitialHist /\ sm = InitialSettingsManager /\ antispam = InitialAntiSpam

commission_call(k, S) ==
    LET order == S.orders[order_index(S.orders, OrderId)]
        referrer_id == S.users[user_key(order.user_id)].referred_by[1]
        commission == calculate_commission(order.amount, REFERRAL_COMMISSION_PERCENT)
        U == IF k = 1 THEN db_get_user(S.users, order.user_id)
             ELSE IF k = 2 THEN db_add_coins(S.users, referrer_id, commission)
             ELSE IF k = 3 THEN db_increment_referral_count(S.users, referrer_id)
             ELSE IF k = 5 THEN db_get_user(S.users, referrer_id)
             ELSE [ok |-> FALSE, users |-> S.users]
        O == IF k = 4
             THEN db_update_order(S.orders, OrderId,
                                  [referrer_id |-> referrer_id, commission_paid |-> commission])
             ELSE [ok |-> FALSE, orders |-> S.orders]
    IN  [users |-> U.users, orders |-> O.orders,
         users_dirty |-> (S.users_dirty \/ U.ok), orders_dirty |-> (S.orders_dirty \/ O.ok)]

\* get_user takes the lock only to create the record.
commission_locks(k, S) ==
    LET order == S.orders[order_index(S.orders, OrderId)]
    IN  IF k = 1 THEN user_key(order.user_id) \notin DOMAIN S.users
        ELSE IF k = 5
        THEN user_key(S.users[user_key(order.user_id)].referred_by[1]) \notin DOMAIN S.users
        ELSE TRUE

\* `if referrer_id:` after call 1.
commission_due(S) ==
    ~Falsy(S.users[user_key(S.orders[order_index(S.orders, OrderId)].user_id)].referred_by)

RECURSIVE commission_run(_, _, _)
commission_run(k, S, free) ==
    IF k > CommissionCalls THEN [S |-> S, next |-> k]
    ELSE IF k = 2 /\ ~commission_due(S) THEN [S |-> S, next |-> CommissionCalls + 1]
    ELSE IF commission_locks(k, S) /\ ~free THEN [S |-> S, next |-> k]
    ELSE commission_run(k + 1, commission_call(k, S), free)

CommissionAdvance(t, r, q) ==
    /\ users' = r.S.users
    /\ orders' = r.S.orders
    /\ users_dirty' = r.S.users_dirty
    /\ orders_dirty' = r.S.orders_dirty
    /\ IF r.next > CommissionCalls
       THEN pc' = [pc EXCEPT ![t] = "done"] /\ lockq' = q
       ELSE pc' = [pc EXCEPT ![t] = CommissionWait[r.next]] /\ lockq' = Append(q, t)
    /\ UNCHANGED <<lock, users_file, orders_file, running, json_str, fsm, sent, hist, sm, antispam>>

ProcessReferralCommission(t) ==
    /\ pc[t] = "idle"
    /\ OrderExists /\ TheOrder.status = "approved"
    /\ CommissionAdvance(t, commission_run(1, StoreState, CanAcquireNow), lockq)

CommissionResume(t) ==
    /\ \E k \in 1..CommissionCalls :
          /\ pc[t] = CommissionWait[k]
          /\ CanResume(t)
          /\ CommissionAdvance(t, commission_run(k + 1, commission_call(k, StoreState),
                                                 Tail(lockq) = << >>),
                               Tail(lockq))

\* The store call of admin_reject and of cancel_order: neither handler reads
\* the order's status first.
Decisions == {"rejected", "cancelled"}

NextLedger ==
    \/ \E t \in CommissionTasks : ProcessReferralCommission(t)
    \/ \E t \in CommissionTasks : CommissionResume(t)
    \/ \E status \in Decisions : CallUpdateOrder(OrderId, [status |-> status])
    \/ FlushEnter("persist")
    \/ FlushResume("persist")
    \/ WriteOpen("persist")
    \/ WriteData("persist")

SpecLedger == InitLedger /\ [][NextLedger]_vars

\* C11: commission payment is idempotent per order: however often it is
\* invoked for the order, the referrer's coins, earnings and referral count
\* have grown by at most one commission.
C11_CommissionPaidOnce ==
    user_key(Referrer) \in DOMAIN users =>
        /\ users[user_key(Referrer)].coins <= Commission
        /\ users[user_key(Referrer)].total_earned <= Commission
        /\ users[user_key(Referrer)].total_referrals <= 1

-----------------------------------------------------------------------------
(* The payment timer under several configured timeouts (SpecTimer): the    *)
(* order, its timer, the buyer's handlers and the flush.                   *)

TimeoutMinutes == {1, 3, 5, 10}     \* values of PAYMENT_TIMEOUT_MINUTES

InitTimer ==
    /\ OrderStart
    /\ \E minutes \in TimeoutMinutes : hist = [InitialHist EXCEPT !.timeout = minutes] /\ sm = InitialSettingsManager /\ antispam = InitialAntiSpam

NextTimer ==
    \/ CreatePaymentOrder
    \/ CreateResume
    \/ TimerWarn
    \/ TimerFinal
    \/ TimerResume
    \/ RequestScreenshot
    \/ HandleScreenshot
    \/ ScreenshotResume
    \/ CancelOrder
    \/ CancelResume
    \/ FlushEnter("persist")
    \/ FlushResume("persist")
    \/ WriteOpen("persist")
    \/ WriteData("persist")

SpecTimer == InitTimer /\ [][NextTimer]_vars

\* Neither the user nor an admin has acted on the order.
NoOneActed ==
    /\ OrderExists
    /\ fsm[Buyer] = None
    /\ \A t \in ApproveTasks \cup {"screenshot", "cancel", "reject", "details"} : pc[t] = "idle"

CommissionFields == {"referrer_id", "commission_paid"}

\* C12: an order on which no one acts is expired once the configured
\* timeout has elapsed since its timer started (unless the timer is waiting
\* for the store lock), and the step that expires it changes no user record
\* and sets no commission field.
C12_UntouchedOrderExpires ==
    [][/\ (/\ NoOneActed'
           /\ pc'["timer"] # "wait"
           /\ timer_elapsed(hist'.timeout, pc'["timer"]) >= timeout_seconds(hist'.timeout))
              => TheOrder'.status = "expired"
       /\ (OrderExists /\ TheOrder.status # "expired" /\ TheOrder'.status = "expired")
              => /\ users' = users
                 /\ DOMAIN TheOrder' \cap CommissionFields = {}]_vars

\* The timer's position right after its i-th status re-check.
AfterWarning == <<"w2", "w3", "final">>

\* C13: with timeout T the status re-checks run T-5min, T-3min and T-1min
\* after the timer started and the expiry check runs T after it.
C13_ChecksAtClaimedTimes ==
    /\ \A i \in DOMAIN WarningTimes :
          (pc["timer"] = AfterWarning[i] /\ wait_time(hist.timeout, i) > 0) =>
              timer_elapsed(hist.timeout, pc["timer"]) =
                  timeout_seconds(hist.timeout) - WarningTimes[i]
    /\ pc["timer"] \in {"wait", "done"} =>
          timer_elapsed(hist.timeout, pc["timer"]) = timeout_seconds(hist.timeout)

\* The timer wakes from a sleep in this step: a warning checkpoint or the
\* final check.
TimerCheckpoint ==
    /\ pc["timer"] \in {"w1", "w2", "w3", "final"}
    /\ pc'["timer"] # pc["timer"]

\* C28: a timer checkpoint that wakes and finds its order no longer pending
\* produces no observable effect: it sends no warning and no expiry message
\* and changes no order, no user and no dirty flag.
C28_CheckpointOnDecidedOrderIsSilent ==
    [][(TimerCheckpoint /\ OrderExists /\ TheOrder.status # "pending") =>
          /\ pc'["timer"] # "wait"
          /\ UNCHANGED <<orders, users, users_dirty, orders_dirty, sent, fsm,
                         users_file, orders_file, lock, lockq>>]_vars

\* With a timeout of 10 minutes the order was cancelled after the first
\* warning: the two later checkpoints and the final check found it
\* cancelled, and the timer ended without a further message.
C28_TimerEndedOnCancelledOrder ==
    /\ hist.timeout = 10
    /\ pc["timer"] = "done"
    /\ OrderExists /\ TheOrder.status = "cancelled"
    /\ sent.warning = 1
    /\ sent.expired = 0

-----------------------------------------------------------------------------
(* Python floats (IEEE 754 binary64), as far as bulk_update_prices needs    *)
(* them.  A natural number too large for the model's integers is a          *)
(* sequence of limbs in base 2^16, most significant first.  A positive      *)
(* float is [m |-> a 53-bit natural, e |-> exponent]: the number m * 2^e;   *)
(* zero is [m |-> << >>, e |-> 0].  Every operation rounds the exact        *)
(* result to the nearest float, ties to even.                               *)

MantissaBits == 53
LimbBits == 16
LimbBase == 2 ^ LimbBits
ShiftChunk == 14                \* bits shifted at once: 2^14 * 2^16 < 2^31

RECURSIVE StripLimbs(_)
StripLimbs(a) == IF a # << >> /\ a[1] = 0 THEN StripLimbs(Tail(a)) ELSE a

RECURSIVE BigOfNat(_)
BigOfNat(n) == IF n = 0 THEN << >> ELSE Append(BigOfNat(n \div LimbBase), n % LimbBase)

RECURSIVE NatOfBig(_)
NatOfBig(a) ==
    IF a = << >> THEN 0 ELSE LimbBase * NatOfBig(SubSeq(a, 1, Len(a) - 1)) + a[Len(a)]

PadLimbs(a, n) == [i \in 1..(n - Len(a)) |-> 0] \o a

\* a + b + carry, a - b - borrow (a >= b) for two naturals of the same
\* number of limbs.
RECURSIVE AddLimbs(_, _, _)
AddLimbs(a, b, carry) ==
    IF a = << >> THEN <<carry>>
    ELSE LET n == Len(a)
             t == a[n] + b[n] + carry
         IN  Append(AddLimbs(SubSeq(a, 1, n - 1), SubSeq(b, 1, n - 1), t \div LimbBase),
                    t % LimbBase)

RECURSIVE SubLimbs(_, _, _)
SubLimbs(a, b, borrow) ==
    IF a = << >> THEN << >>
    ELSE LET n == Len(a)
             t == a[n] - b[n] - borrow
         IN  Append(SubLimbs(SubSeq(a, 1, n - 1), SubSeq(b, 1, n - 1), IF t < 0 THEN 1 ELSE 0),
                    IF t < 0 THEN t + LimbBase ELSE t)

BigAdd(a, b) ==
    LET n == IF Len(a) > Len(b) THEN Len(a) ELSE Len(b)
    IN  StripLimbs(AddLimbs(PadLimbs(a, n), PadLimbs(b, n), 0))

BigSub(a, b) ==
    LET n == IF Len(a) > Len(b) THEN Len(a) ELSE Len(b)
    IN  StripLimbs(SubLimbs(PadLimbs(a, n), PadLimbs(b, n), 0))

\* a * k + carry for a natural k < 2^15.
RECURSIVE MulLimbs(_, _, _)
MulLimbs(a, k, carry) ==
    IF a = << >> THEN <<carry>>
    ELSE LET n == Len(a)
             t == a[n] * k + carry
         IN  Append(MulLimbs(SubSeq(a, 1, n - 1), k, t \div LimbBase), t % LimbBase)

BigMul(a, k) == StripLimbs(MulLimbs(a, k, 0))

\* Long division by a natural 0 < d < 2^15, from remainder r: quotient and
\* remainder.
RECURSIVE DivLimbs(_, _, _)
DivLimbs(a, d, r) ==
    IF a = << >> THEN [q |-> << >>, r |-> r]
    ELSE LET t == r * LimbBase + a[1]
             rest == DivLimbs(Tail(a), d, t % d)
         IN  [q |-> <<t \div d>> \o rest.q, r |-> rest.r]

BigDiv(a, d) == LET res == DivLimbs(a, d, 0) IN [q |-> StripLimbs(res.q), r |-> res.r]

\* The number of bits of a natural.
BitLength(a) ==
    LET s == StripLimbs(a)
    IN  IF s = << >> THEN 0
        ELSE LimbBits * (Len(s) - 1) + (CHOOSE k \in 1..LimbBits : 2 ^ (k - 1) <= s[1] /\ s[1] < 2 ^ k)

\* a * 2^n.
RECURSIVE ShiftLeft(_, _)
ShiftLeft(a, n) ==
    IF n <= 0 THEN a
    ELSE IF n > ShiftChunk THEN ShiftLeft(BigMul(a, 2 ^ ShiftChunk), n - ShiftChunk)
    ELSE BigMul(a, 2 ^ n)

\* a \div 2^n, and whether a nonzero part was shifted out (or `lost` already).
RECURSIVE ShiftRight(_, _, _)
ShiftRight(a, n, lost) ==
    IF n <= 0 THEN [q |-> a, lost |-> lost]
    ELSE LET c == IF n > ShiftChunk THEN ShiftChunk ELSE n
             res == BigDiv(a, 2 ^ c)
         IN  ShiftRight(res.q, n - c, lost \/ res.r # 0)

FloatZero == [m |-> << >>, e |-> 0]

\* The float nearest to a * 2^e (+ a positive amount below 2^e if `sticky`).
RoundToFloat(a, e, sticky) ==
    LET n == BitLength(a)
    IN  IF n = 0 THEN FloatZero
        ELSE IF n <= MantissaBits
        THEN [m |-> ShiftLeft(StripLimbs(a), MantissaBits - n), e |-> e - (MantissaBits - n)]
        ELSE LET drop == n - MantissaBits
                 low == ShiftRight(StripLimbs(a), drop - 1, sticky)
                 half == BigDiv(low.q, 2)
                 up == half.r = 1 /\ (low.lost \/ half.q[Len(half.q)] % 2 = 1)
                 m == IF up THEN BigAdd(half.q, <<1>>) ELSE half.q
             IN  IF BitLength(m) > MantissaBits
                 THEN [m |-> BigDiv(m, 2).q, e |-> e + drop + 1]
                 ELSE [m |-> m, e |-> e + drop]

\* float(n) for a natural n.
FloatOfNat(n) == RoundToFloat(BigOfNat(n), 0, FALSE)

\* n / d for naturals n and 0 < d < 2^15: true division.
FloatDiv(n, d) ==
    LET shift == MantissaBits + LimbBits
        res == BigDiv(ShiftLeft(BigOfNat(n), shift), d)
    IN  RoundToFloat(res.q, 0 - shift, res.r # 0)

\* x + y (sign = 1) or x - y (sign = -1) for floats x >= y >= 0.
FloatAdd(x, y, sign) ==
    IF y = FloatZero THEN x
    ELSE LET e == IF x.e < y.e THEN x.e ELSE y.e
             xa == ShiftLeft(x.m, x.e - e)
             ya == ShiftLeft(y.m, y.e - e)
         IN  RoundToFloat(IF sign = 1 THEN BigAdd(xa, ya) ELSE BigSub(xa, ya), e, FALSE)

\* k * x for a natural k < 2^15 and a float x.
FloatMul(k, x) ==
    IF x = FloatZero \/ k = 0 THEN FloatZero
    ELSE RoundToFloat(BigMul(x.m, k), x.e, FALSE)

\* int(x) for a float x >= 0: truncation.
IntOfFloat(x) ==
    IF x = FloatZero THEN 0
    ELSE IF x.e >= 0 THEN NatOfBig(ShiftLeft(x.m, x.e))
    ELSE NatOfBig(ShiftRight(x.m, 0 - x.e, FALSE).q)

\* bulk_update_prices: factor, and the new price of a plan.
price_factor(percentage, increase) ==
    FloatAdd(FloatOfNat(1), FloatDiv(percentage, 100), IF increase THEN 1 ELSE -1)

new_price(old_price, percentage, increase) ==
    LET price == IntOfFloat(FloatMul(old_price, price_factor(percentage, increase)))
    IN  IF price < 1 THEN 1 ELSE price

-----------------------------------------------------------------------------
(* SettingsManager (SpecSettings).  Every method holds SettingsManager._lock *)
(* from its first to its last line, file writes included, so the methods    *)
(* run one after the other: a method is one step, with the outcome of each  *)
(* of its file writes as an input.  A file holds the dict last written.     *)

MaxBulkUpdates == 2

Percents == {15, 100}       \* percentages the admin enters (1-100)

SystemOffUpdate == [enabled |-> FALSE, disabled_reason |-> Some("maintenance")]

\* What the admin handlers pass to update_settings.
UpdateInputs ==
    {[qr_settings |-> [upi_id |-> "new@upi"]],
     [qr_settings |-> [upi_name |-> "New Name"]],
     [payment_system |-> SystemOffUpdate]}

\* _get_default_settings (the keys the model follows).
DefaultSettings ==
    [qr_settings |-> [use_default_qr |-> FALSE, upi_id |-> "yourupi@paytm",
                      upi_name |-> "Friday Bazar"],
     payment_system |-> [enabled |-> TRUE, disabled_reason |-> None],
     pricing |-> [last_bulk_update |-> None]]

\* data/services.json: a service with two plans and one without plans.
ShippedServices ==
    [netflix |-> [name |-> "Netflix", plans |-> <<[price |-> 100], [price |-> 3]>>],
     support |-> [name |-> "Support"]]

JsonFile(data) == [kind |-> "json", doc |-> data]
UnparseableFile == [kind |-> "partial", doc |-> EmptyDict]

SaveOutcomes == {"ok", "open_fails", "write_fails"}

\* _load_json: the parsed dict; {} after any exception.
load_json(file) == IF file.kind = "json" THEN file.doc ELSE EmptyDict

\* _save_json: open with 'w' and write; an exception is logged, not raised.
save_json(file, data, outcome) ==
    IF outcome = "ok" THEN JsonFile(data)
    ELSE IF outcome = "open_fails" THEN file
    ELSE UnparseableFile

\* The process starts with the files the deployment ships or left behind.
InitSettings ==
    /\ DatabaseInit
    /\ hist = InitialHist /\ antispam = InitialAntiSpam
    /\ \E sf \in {[kind |-> "absent", doc |-> EmptyDict], JsonFile(DefaultSettings), UnparseableFile},
          vf \in {[kind |-> "absent", doc |-> EmptyDict], JsonFile(ShippedServices)} :
          sm = [settings |-> EmptyDict, services |-> EmptyDict,
                settings_file |-> sf, services_file |-> vf, initialized |-> FALSE,
                menu_cache |-> None]

DatabaseUnchanged ==
    UNCHANGED <<users, orders, users_dirty, orders_dirty, lock, lockq, users_file,
                orders_file, running, pc, json_str, fsm, sent, antispam>>

\* SettingsManager.initialize.
SettingsInitialize ==
    /\ ~sm.initialized
    /\ sm' = [settings |-> IF sm.settings_file.kind = "absent" THEN DefaultSettings
                           ELSE load_json(sm.settings_file),
              services |-> IF sm.services_file.kind = "absent" THEN EmptyDict
                           ELSE load_json(sm.services_file),
              settings_file |-> IF sm.settings_file.kind = "absent"
                                THEN save_json(sm.settings_file, DefaultSettings, "ok")
                                ELSE sm.settings_file,
              services_file |-> sm.services_file,
              initialized |-> TRUE,
              menu_cache |-> sm.menu_cache]
    /\ hist' = hist
    /\ DatabaseUnchanged

\* dict.update of the whole settings: each section in updates replaces the old one.
update_settings_replacing(settings, updates) == Update(settings, updates)

\* update_settings: a section that is a dict on both sides is merged key by
\* key, anything else is replaced.  Every section of the file and of every
\* caller's updates is a dict.
update_settings(settings, updates) ==
    [k \in DOMAIN settings \cup DOMAIN updates |->
        IF k \notin DOMAIN updates THEN settings[k]
        ELSE IF k \in DOMAIN settings THEN Update(settings[k], updates[k])
        ELSE updates[k]]

UpdateSettings(updates, outcome) ==
    /\ sm.initialized
    /\ outcome # "ok" => hist.faults < MaxWriteFaults
    /\ LET new == update_settings(sm.settings, updates)
       IN  sm' = [sm EXCEPT !.settings = new,
                            !.settings_file = save_json(@, new, outcome)]
    /\ hist' = IF outcome = "ok" THEN hist ELSE [hist EXCEPT !.faults = @ + 1]
    /\ DatabaseUnchanged

HasPlans(service) == "plans" \in DOMAIN service

\* The prices bulk_update_prices computes, and its count.
bulk_update_prices(services, percentage, increase) ==
    [services |->
        [id \in DOMAIN services |->
            IF HasPlans(services[id])
            THEN [services[id] EXCEPT !.plans =
                     [i \in DOMAIN services[id].plans |->
                         [services[id].plans[i] EXCEPT
                             !.price = new_price(@, percentage, increase)]]]
            ELSE services[id]],
     count |-> Cardinality({id \in DOMAIN services : HasPlans(services[id])})]

\* datetime.now() of the n-th bulk update is n.
bulk_updates_done(settings) ==
    IF "pricing" \in DOMAIN settings /\ settings.pricing.last_bulk_update # None
    THEN settings.pricing.last_bulk_update[1] ELSE 0

BulkUpdatePrices(percentage, increase) ==
    /\ sm.initialized
    /\ bulk_updates_done(sm.settings) < MaxBulkUpdates
    /\ LET res == bulk_update_prices(sm.services, percentage, increase)
           stamped == Put(sm.settings, "pricing",
                          Update(IF "pricing" \in DOMAIN sm.settings
                                 THEN sm.settings.pricing ELSE EmptyDict,
                                 [last_bulk_update |-> Some(bulk_updates_done(sm.settings) + 1)]))
       IN  IF res.count > 0
           THEN \* asyncio.gather of the two saves: each write fails or not
                \E services_outcome \in SaveOutcomes, settings_outcome \in SaveOutcomes :
                   LET failures == (IF services_outcome = "ok" THEN 0 ELSE 1) +
                                   (IF settings_outcome = "ok" THEN 0 ELSE 1)
                   IN  /\ hist.faults + failures <= MaxWriteFaults
                       /\ sm' = [sm EXCEPT
                                   !.services = res.services,
                                   !.settings = stamped,
                                   !.services_file = save_json(@, res.services, services_outcome),
                                   !.settings_file = save_json(@, stamped, settings_outcome),
                                   !.menu_cache = None]
                       /\ hist' = [hist EXCEPT !.faults = @ + failures]
           ELSE /\ sm' = sm
                /\ hist' = hist
    /\ DatabaseUnchanged

NextSettings ==
    \/ SettingsInitialize
    \/ \E u \in UpdateInputs, o \in SaveOutcomes : UpdateSettings(u, o)
    \/ \E p \in Percents, inc \in BOOLEAN : BulkUpdatePrices(p, inc)

SpecSettings == InitSettings /\ [][NextSettings]_vars

-----------------------------------------------------------------------------
(* Claims checked under SpecSettings.                                       *)

ServicesWithPlans(services) == {id \in DOMAIN services : HasPlans(services[id])}

\* max(1, floor(old_price * (100 +- percent) / 100)) in exact arithmetic.
exact_price(old_price, percentage, increase) ==
    LET scaled == (old_price * (IF increase THEN 100 + percentage ELSE 100 - percentage)) \div 100
    IN  IF scaled < 1 THEN 1 ELSE scaled

\* C14: bulk_update_prices(percent, is_increase) replaces the price of every
\* plan of every service that has plans by
\* max(1, floor(old_price * (100 +- percent) / 100)) and returns the number
\* of such services.  The code multiplies by the binary64 factor
\* 1 +- percent/100 and truncates, which for 100 increased by 15% gives 114.
C14_PricesAreExactFloors ==
    sm.initialized =>
        \A p \in Percents, inc \in BOOLEAN :
            LET res == bulk_update_prices(sm.services, p, inc)
            IN  /\ res.count = Cardinality(ServicesWithPlans(sm.services))
                /\ \A id \in ServicesWithPlans(sm.services) :
                       \A i \in DOMAIN sm.services[id].plans :
                          res.services[id].plans[i].price =
                              exact_price(sm.services[id].plans[i].price, p, inc)

\* A step of bulk_update_prices that found a service with plans.
BulkUpdateStep == bulk_updates_done(sm'.settings) # bulk_updates_done(sm.settings)

\* C15: bulk_update_prices is all-or-nothing: either the new prices of all
\* services are persisted, or, when a file write fails, no price is changed
\* in memory either; after the call the prices in memory and the persisted
\* prices agree.  The code changes the prices in memory first and
\* _save_json swallows the failure of the write.
C15_BulkUpdateAllOrNothing ==
    [][BulkUpdateStep =>
          \/ load_json(sm'.services_file) = sm'.services
          \/ /\ sm'.services = sm.services
             /\ load_json(sm'.services_file) = load_json(sm.services_file)]_vars

\* C16: update_settings merges one level deep for sections that are already
\* dictionaries: updating some keys of qr_settings or payment_system changes
\* exactly those keys and leaves every sibling key of the section and every
\* other section unchanged.
C16_UpdateMergesOneLevel ==
    \A updates \in UpdateInputs :
        LET new == update_settings(sm.settings, updates)
        IN  (\A k \in DOMAIN updates : k \in DOMAIN sm.settings) =>
               /\ DOMAIN new = DOMAIN sm.settings
               /\ \A k \in DOMAIN sm.settings :
                      IF k \in DOMAIN updates
                      THEN /\ DOMAIN new[k] = DOMAIN sm.settings[k] \cup DOMAIN updates[k]
                           /\ \A f \in DOMAIN new[k] :
                                  new[k][f] = IF f \in DOMAIN updates[k]
                                              THEN updates[k][f] ELSE sm.settings[k][f]
                      ELSE new[k] = sm.settings[k]

\* receive_upi_id has stored a new upi_id and the upi_name, the payment
\* system section and the pricing section are the defaults still.
C16_UpiIdUpdated ==
    /\ sm.initialized
    /\ "qr_settings" \in DOMAIN sm.settings
    /\ sm.settings.qr_settings =
           [DefaultSettings.qr_settings EXCEPT !.upi_id = "new@upi"]
    /\ sm.settings.payment_system = DefaultSettings.payment_system
    /\ sm.settings.pricing = DefaultSettings.pricing

-----------------------------------------------------------------------------
(* Concurrent callers of the user store (SpecUsers): three get_user calls, *)
(* two of them for the same user, and a caller of the other store          *)
(* operations, while the persistence loop takes and releases the lock.     *)

\* The user each get_user call asks for.
get_user_arg(t) == IF t = "getuser1" THEN Buyer ELSE Referrer

\* get_user from `async with self._lock` on; `found` is where the caller
\* ends when the record is there.
LockedGetUser(t, found) ==
    /\ LET res == db_get_user(users, get_user_arg(t))
       IN  /\ users' = res.users
           /\ users_dirty' = (users_dirty \/ res.ok)
           /\ pc' = [pc EXCEPT ![t] = IF res.ok THEN "created" ELSE found]
    /\ UNCHANGED <<orders, orders_dirty, lock, users_file, orders_file, running,
                   json_str, fsm, sent, hist, sm, antispam>>

\* get_user: the record is returned without the lock when it is there.
GetUser(t) ==
    /\ Up /\ pc[t] = "idle"
    /\ IF user_key(get_user_arg(t)) \in DOMAIN users
       THEN /\ pc' = [pc EXCEPT ![t] = "found"]
            /\ UNCHANGED <<users, orders, users_dirty, orders_dirty, lock, lockq, users_file,
                           orders_file, running, json_str, fsm, sent, hist, sm, antispam>>
       ELSE IF CanAcquireNow THEN LockedGetUser(t, "found_locked") /\ lockq' = lockq
                             ELSE WaitForLock(t, "wait")

GetUserResume(t) ==
    /\ pc[t] = "wait" /\ CanResume(t)
    /\ lockq' = Tail(lockq)
    /\ LockedGetUser(t, "found_locked")

StoreOps == {"update_user", "set_referrer", "add_coins", "increment_referral_count",
             "add_purchase_to_user", "update_order"}

\* One call of a store operation on the tables U, O.
store_call(op, U, O, user_id) ==
    LET on_users(res) == [ok |-> res.ok, users |-> res.users, orders |-> O]
    IN  CASE op = "update_user" ->
                on_users(db_update_user(U, user_id, [email |-> Some("mail")]))
          [] op = "set_referrer" -> on_users(db_set_referrer(U, user_id, Buyer))
          [] op = "add_coins" -> on_users(db_add_coins(U, user_id, Commission))
          [] op = "increment_referral_count" ->
                on_users(db_increment_referral_count(U, user_id))
          [] op = "add_purchase_to_user" ->
                on_users(db_add_purchase_to_user(U, user_id, OrderId, Price))
          [] op = "update_order" ->
                LET res == db_update_order(O, OrderId, [status |-> "approved"])
                IN  [ok |-> res.ok, users |-> U, orders |-> res.orders]

\* The calls the model stops making, to stay finite.
WithinBounds(op, user_id) ==
    user_key(user_id) \in DOMAIN users =>
        LET user == users[user_key(user_id)]
        IN  /\ op = "add_coins" => user.coins < MaxCredits * Commission
            /\ op = "increment_referral_count" => user.total_referrals < MaxCredits
            /\ op = "add_purchase_to_user" => Len(user.purchases) < MaxCredits

\* A handler calls a store operation while the lock is free, and sees what
\* it returns.
StoreCall(op, user_id) ==
    /\ Up /\ CanAcquireNow
    /\ WithinBounds(op, user_id)
    /\ LET res == store_call(op, users, orders, user_id)
       IN  /\ users' = res.users
           /\ orders' = res.orders
           /\ users_dirty' = (users_dirty \/ (res.ok /\ op # "update_order"))
           /\ orders_dirty' = (orders_dirty \/ (res.ok /\ op = "update_order"))
           /\ pc' = [pc EXCEPT !["caller"] = IF res.ok THEN "returned_true"
                                                      ELSE "returned_false"]
    /\ UNCHANGED <<lock, lockq, users_file, orders_file, running, json_str, fsm, sent,
                   hist, sm, antispam>>

NextUsers ==
    \/ Initialize
    \/ \E t \in GetUserTasks : GetUser(t)
    \/ \E t \in GetUserTasks : GetUserResume(t)
    \/ \E op \in StoreOps : StoreCall(op, Referrer)
    \/ FlushEnter("persist")
    \/ FlushResume("persist")
    \/ WriteOpen("persist")
    \/ WriteData("persist")

SpecUsers == Init /\ [][NextUsers]_vars

\* A get_user call returns in this step.
GetUserReturns(t) ==
    /\ pc[t] \in {"idle", "wait"}
    /\ pc'[t] \in {"created", "found", "found_locked"}

\* C18: get_user is an atomic get-or-create: concurrent calls for the same
\* user ID create exactly one record with zero-valued defaults, every caller
\* gets the record of the store, and a call for an existing user never
\* resets or replaces its record.
C18_GetUserCreatesOnce ==
    [][\A t \in GetUserTasks :
          GetUserReturns(t) =>
             LET key == user_key(get_user_arg(t))
             IN  IF key \in DOMAIN users
                 THEN /\ users' = users
                      /\ pc'[t] # "created"
                 ELSE /\ users' = Put(users, key, new_user(get_user_arg(t)))
                      /\ users'[key].coins = 0
                      /\ users'[key].referred_by = None
                      /\ users'[key].purchases = << >>
                      /\ pc'[t] = "created"
                      /\ \A other \in GetUserTasks \ {t} :
                            get_user_arg(other) = get_user_arg(t) => pc[other] # "created"]_vars

\* Two calls for the same user waited for the lock together: one created the
\* record, the other found it when its turn came.
C18_SecondCallerFoundRecord ==
    \E t \in GetUserTasks, other \in GetUserTasks :
        /\ get_user_arg(t) = get_user_arg(other)
        /\ pc[t] = "created"
        /\ pc[other] = "found_locked"
        /\ users[user_key(get_user_arg(t))] = new_user(get_user_arg(t))

\* The record the operation is about is not in its table.
AbsentRecord(op, user_id) ==
    IF op = "update_order" THEN order_index(orders, OrderId) = 0
    ELSE user_key(user_id) \notin DOMAIN users

\* C19: update_user, set_referrer, add_coins, increment_referral_count and
\* add_purchase_to_user on an absent user, and update_order on an absent
\* order, return failure, create no record, and leave both tables and both
\* dirty flags unchanged.
C19_AbsentRecordIsFailure ==
    [][\A op \in StoreOps :
          (AbsentRecord(op, Referrer) /\ StoreCall(op, Referrer)) =>
             /\ pc'["caller"] = "returned_false"
             /\ UNCHANGED <<users, orders, users_dirty, orders_dirty>>]_vars

\* A call on an absent record has returned failure in a running store with
\* one user, no order and nothing to flush.
C19_CallOnAbsentRecordFailed ==
    /\ Up
    /\ pc["caller"] = "returned_false"
    /\ DOMAIN users = {user_key(Buyer)}
    /\ orders = << >>
    /\ ~users_dirty /\ ~orders_dirty

-----------------------------------------------------------------------------
(* The catalog and the menu built from it (SpecCatalog).                   *)

ServiceIds == {"netflix", "unknown"}    \* the service an admin callback names

\* What toggle_service passes to update_service.
ServiceUpdates == {[available |-> FALSE], [available |-> TRUE]}

\* update_service: dict.update on the service when it is in the catalog.
update_service(services, service_id, updates) ==
    IF service_id \in DOMAIN services
    THEN [ok |-> TRUE,
          services |-> Put(services, service_id, Update(services[service_id], updates))]
    ELSE [ok |-> FALSE, services |-> services]

UpdateService(service_id, updates, outcome) ==
    /\ sm.initialized
    /\ LET res == update_service(sm.services, service_id, updates)
       IN  IF res.ok
           THEN /\ outcome # "ok" => hist.faults < MaxWriteFaults
                /\ sm' = [sm EXCEPT !.services = res.services,
                                    !.services_file = save_json(@, res.services, outcome),
                                    !.menu_cache = None]
                /\ hist' = IF outcome = "ok" THEN hist ELSE [hist EXCEPT !.faults = @ + 1]
           ELSE /\ outcome = "ok"
                /\ sm' = sm
                /\ hist' = hist
    /\ DatabaseUnchanged

\* What get_services_grid shows of each service: whether it is available.
services_grid(services) ==
    [id \in DOMAIN services |->
        IF "available" \in DOMAIN services[id] THEN services[id].available ELSE TRUE]

\* get_services_grid: the cached keyboard, built when there is none.
GetServicesGrid ==
    /\ sm.initialized
    /\ sm.menu_cache = None
    /\ sm' = [sm EXCEPT !.menu_cache = Some(services_grid(sm.services))]
    /\ hist' = hist
    /\ DatabaseUnchanged

NextCatalog ==
    \/ SettingsInitialize
    \/ \E id \in ServiceIds, u \in ServiceUpdates, o \in SaveOutcomes : UpdateService(id, u, o)
    \/ \E p \in Percents, inc \in BOOLEAN : BulkUpdatePrices(p, inc)
    \/ GetServicesGrid

SpecCatalog == InitSettings /\ [][NextCatalog]_vars

\* C21: every successful catalog mutation (update_service on an existing
\* service, bulk_update_prices touching at least one service) persists the
\* catalog and fires the menu-cache invalidation before the call returns;
\* update_service on an unknown service returns failure and neither persists
\* nor invalidates.  A write that fails is logged by _save_json and the call
\* returns success all the same.
C21_MutationPersistsAndInvalidates ==
    [][/\ BulkUpdateStep =>
             load_json(sm'.services_file) = sm'.services /\ sm'.menu_cache = None
       /\ \A id \in ServiceIds, u \in ServiceUpdates, o \in SaveOutcomes :
             UpdateService(id, u, o) =>
                IF id \in DOMAIN sm.services
                THEN load_json(sm'.services_file) = sm'.services /\ sm'.menu_cache = None
                ELSE sm' = sm]_vars

-----------------------------------------------------------------------------
(* The persistence loop while the store runs without crash, shutdown or    *)
(* write failure: handlers mutate both tables through store operations,    *)
(* some of them waiting for the lock behind a flush.                       *)

NextPersist ==
    \/ Initialize
    \/ \E t \in GetUserTasks : GetUser(t)
    \/ \E t \in GetUserTasks : GetUserResume(t)
    \/ CallAddCoins(Referrer, Commission)
    \/ CallCreateOrder(PaymentOrderData(Buyer, Price))
    \/ CallUpdateOrder(OrderId, [status |-> "cancelled"])
    \/ FlushEnter("persist")
    \/ FlushResume("persist")
    \/ WriteOpen("persist")
    \/ WriteData("persist")

SpecPersist == Init /\ [][NextPersist]_vars

\* Scheduling: asyncio.sleep(5) ends; the event loop runs every task that
\* is ready (a waiter the lock was handed to, FIFO); the executor finishes
\* the open and the write it was given.
PersistFairness ==
    /\ WF_vars(FlushEnter("persist"))
    /\ WF_vars(FlushResume("persist"))
    /\ WF_vars(WriteOpen("persist"))
    /\ WF_vars(WriteData("persist"))
    /\ \A t \in GetUserTasks : WF_vars(GetUserResume(t))

SpecPersistFair == SpecPersist /\ PersistFairness

UsersFlushed == ~users_dirty /\ users_file = json_dumps_users(users)
OrdersFlushed == ~orders_dirty /\ orders_file = json_dumps_orders(orders)

\* C32: while the store runs and no crash or write failure occurs, a dirty
\* flag that is set is eventually cleared by a flush whose written content
\* includes the mutation: the flag is clear and the file holds the table.
C32_DirtyIsEventuallyFlushed ==
    /\ users_dirty ~> UsersFlushed
    /\ orders_dirty ~> OrdersFlushed

C32_BothTablesFlushedAfterMutations ==
    /\ UsersFlushed /\ OrdersFlushed
    /\ user_key(Referrer) \in DOMAIN users /\ users[user_key(Referrer)].coins > 0
    /\ OrderExists /\ TheOrder.status = "cancelled"
    /\ \E t \in GetUserTasks : pc[t] = "found_locked"

-----------------------------------------------------------------------------
(* Purchase entry points and admin operations as events of the dispatcher: *)
(* every handler is registered for every sender, and `from_user` is the    *)
(* sender of the callback or message.                                      *)

ADMIN_IDS == {AdminId}
Senders == {Buyer, AdminId}

\* FSM state of a sender in one of the dialogues below.
Waiting(state) == Some([state |-> state, order_id |-> ""])

\* SettingsManager.is_payment_enabled.
is_payment_enabled(settings) ==
    IF "payment_system" \in DOMAIN settings /\ "enabled" \in DOMAIN settings.payment_system
    THEN settings.payment_system.enabled
    ELSE TRUE

\* The settings manager as the deployment ships it: a catalog, no settings file.
InitShop ==
    /\ DatabaseInit
    /\ hist = InitialHist /\ antispam = InitialAntiSpam
    /\ sm = [InitialSettingsManager EXCEPT !.services_file = JsonFile(ShippedServices)]

\* The event changes nothing but the reply sent.
Ignored ==
    UNCHANGED <<users, orders, users_dirty, orders_dirty, lock, lockq, users_file, orders_file,
                running, pc, json_str, fsm, sent, hist, sm, antispam>>

\* initiate_payment ("buy:"): refused while payments are disabled; otherwise
\* get_user and _create_payment_order for an available service.
InitiatePayment(from_user) ==
    /\ Up /\ CanAcquireNow
    /\ IF ~is_payment_enabled(sm.settings)
       THEN Ignored
       ELSE /\ Len(orders) < MaxOrders
            /\ LET res == db_get_user(users, from_user)
               IN  /\ users' = res.users
                   /\ users_dirty' = (users_dirty \/ res.ok)
            /\ orders' = db_create_order(orders, PaymentOrderData(from_user, Price))
            /\ orders_dirty' = TRUE
            /\ UNCHANGED <<lock, lockq, users_file, orders_file, running, pc, json_str, fsm,
                           sent, hist, sm, antispam>>

\* initiate_direct_payment ("buy_direct:", the button of the first-purchase
\* offer): _create_payment_order without any check.
InitiateDirectPayment(from_user) ==
    /\ Up
    /\ CallCreateOrder(PaymentOrderData(from_user, Price))

\* confirm_free_subscription ("confirm_free:"): asks for the e-mail address.
ConfirmFreeSubscription(from_user) ==
    /\ Up
    /\ fsm[from_user] = None
    /\ fsm' = [fsm EXCEPT ![from_user] = Waiting("waiting_for_email")]
    /\ UNCHANGED <<users, orders, users_dirty, orders_dirty, lock, lockq, users_file,
                   orders_file, running, pc, json_str, sent, hist, sm, antispam>>

\* receive_free_email: the free order is created already approved.
ReceiveFreeEmail(from_user) ==
    /\ Up /\ CanAcquireNow
    /\ fsm[from_user] = Waiting("waiting_for_email")
    /\ Len(orders) < MaxOrders
    /\ orders' = db_create_order(orders, FreeOrderData(from_user))
    /\ orders_dirty' = TRUE
    /\ fsm' = [fsm EXCEPT ![from_user] = None]
    /\ UNCHANGED <<users, users_dirty, lock, lockq, users_file, orders_file, running, pc,
                   json_str, sent, hist, sm, antispam>>

\* update_settings called by a handler that leaves the sender's FSM state at `state`.
SettingsUpdated(from_user, updates, state) ==
    /\ sm.initialized
    /\ LET new == update_settings(sm.settings, updates)
       IN  sm' = [sm EXCEPT !.settings = new, !.settings_file = save_json(@, new, "ok")]
    /\ fsm' = [fsm EXCEPT ![from_user] = state]
    /\ UNCHANGED <<users, orders, users_dirty, orders_dirty, lock, lockq, users_file,
                   orders_file, running, pc, json_str, sent, hist, antispam>>

\* admin_system.confirm_disable ("admin_reason:<reason>"): no check of the sender.
ConfirmDisable(from_user) ==
    /\ sm.initialized
    /\ SettingsUpdated(from_user,
                       [payment_system |-> [enabled |-> FALSE, disabled_by |-> from_user,
                                            disabled_reason |-> Some("maintenance")]],
                       fsm[from_user])

\* admin_system.enable_system ("admin_sys_enable"): no check of the sender.
EnableSystem(from_user) ==
    /\ sm.initialized
    /\ SettingsUpdated(from_user, [payment_system |-> [enabled |-> TRUE]], fsm[from_user])

\* admin_pricing.toggle_service ("admin_svc_toggle:<id>:<action>"): no check
\* of the sender.
ToggleService(from_user, service_id, new_status) ==
    /\ UpdateService(service_id, [available |-> new_status], "ok")
    /\ service_id \in DOMAIN sm.services

\* admin_qr.ask_upi_id ("admin_edit_upi_id"): no check of the sender.
AskUpiId(from_user) ==
    /\ fsm[from_user] = None
    /\ fsm' = [fsm EXCEPT ![from_user] = Waiting("waiting_for_upi_id")]
    /\ UNCHANGED <<users, orders, users_dirty, orders_dirty, lock, lockq, users_file,
                   orders_file, running, pc, json_str, sent, hist, sm, antispam>>

\* admin_qr.receive_upi_id: the message of a sender in waiting_for_upi_id.
ReceiveUpiId(from_user) ==
    /\ fsm[from_user] = Waiting("waiting_for_upi_id")
    /\ SettingsUpdated(from_user, [qr_settings |-> [upi_id |-> "new@upi"]], None)

\* admin_qr.start_set_qr behind @admin_only: the wrapper returns for a
\* sender that is not in ADMIN_IDS.
StartSetQr(from_user) ==
    /\ fsm[from_user] = None
    /\ IF from_user \notin ADMIN_IDS
       THEN Ignored
       ELSE /\ fsm' = [fsm EXCEPT ![from_user] = Waiting("waiting_for_qr")]
            /\ UNCHANGED <<users, orders, users_dirty, orders_dirty, lock, lockq, users_file,
                           orders_file, running, pc, json_str, sent, hist, sm, antispam>>

\* admin_qr.receive_qr: the photo of a sender in waiting_for_qr.
ReceiveQr(from_user) ==
    /\ fsm[from_user] = Waiting("waiting_for_qr")
    /\ SettingsUpdated(from_user,
                       [qr_settings |-> [use_default_qr |-> TRUE, updated_by |-> from_user]],
                       None)

\* admin.admin_reject: the sender is checked against ADMIN_IDS; the order's
\* status is not looked at.
RejectFrom(from_user) ==
    /\ Up /\ CanAcquireNow
    /\ IF from_user \notin ADMIN_IDS \/ ~OrderExists
       THEN Ignored
       ELSE /\ orders' = db_update_order(orders, OrderId, [status |-> "rejected"]).orders
            /\ orders_dirty' = TRUE
            /\ UNCHANGED <<users, users_dirty, lock, lockq, users_file, orders_file, running,
                           pc, json_str, fsm, sent, hist, sm, antispam>>

\* An admin operation arrives from `from_user`.
AdminOperation(from_user) ==
    \/ ConfirmDisable(from_user)
    \/ EnableSystem(from_user)
    \/ \E b \in BOOLEAN : ToggleService(from_user, "netflix", b)
    \/ AskUpiId(from_user)
    \/ ReceiveUpiId(from_user)
    \/ StartSetQr(from_user)
    \/ ReceiveQr(from_user)
    \/ RejectFrom(from_user)

NextShop ==
    \/ Initialize
    \/ SettingsInitialize
    \/ InitiatePayment(Buyer)
    \/ InitiateDirectPayment(Buyer)
    \/ ConfirmFreeSubscription(Buyer)
    \/ ReceiveFreeEmail(Buyer)
    \/ \E from_user \in Senders : AdminOperation(from_user)

SpecShop == InitShop /\ [][NextShop]_vars

\* C33: while the payment system is disabled, no purchase entry point (buy,
\* buy_direct, the free-subscription flow) creates an order: the order table
\* does not grow.
C33_NoOrderWhileDisabled ==
    [][~is_payment_enabled(sm.settings) => Len(orders') <= Len(orders)]_vars

\* C34: only users listed in ADMIN_IDS change state through admin
\* operations: the same event sent by a non-admin leaves settings, catalog
\* and orders unchanged.
C34_AdminOperationsNeedAdmin ==
    [][\A from_user \in Senders \ ADMIN_IDS :
          AdminOperation(from_user) => UNCHANGED <<sm, orders>>]_vars

-----------------------------------------------------------------------------
(* AntiSpamMiddleware.__call__ on the messages of one user and of the      *)
(* admin.  From `now = datetime.now()` to the append there is no await, so *)
(* a call is one step; the clock does not run backwards.                   *)

\* The timestamps kept by the cleaning step: those after the cutoff.
recent(history, now) == SelectSeq(history, LAMBDA ts : ts > now - time_window)

\* A limit test that lets one more message through.
exceeded_above_limit(history) == Len(history) > rate_limit

\* `if len(self.message_history[user_id]) >= self.rate_limit`.
exceeded(history) == Len(history) >= rate_limit

OthersUnchanged ==
    UNCHANGED <<users, orders, users_dirty, orders_dirty, lock, lockq, users_file, orders_file,
                running, pc, json_str, fsm, sent, hist, sm>>

\* A message of user_id arrives at the middleware.
AntiSpamCall(user_id) ==
    /\ Len(antispam.handled[user_id]) + antispam.blocked[user_id] < MaxMessages
    /\ LET now == antispam.now
           history == recent(antispam.message_history[user_id], now)
       IN  IF user_id \in ADMIN_IDS
           THEN antispam' = [antispam EXCEPT !.handled[user_id] = Append(@, now)]
           ELSE IF exceeded(history)
           THEN antispam' = [antispam EXCEPT !.message_history[user_id] = history,
                                             !.blocked[user_id] = @ + 1]
           ELSE antispam' = [antispam EXCEPT !.message_history[user_id] = Append(history, now),
                                             !.handled[user_id] = Append(@, now)]
    /\ OthersUnchanged

\* A second passes.
Tick ==
    /\ antispam.now < MaxTime
    /\ antispam' = [antispam EXCEPT !.now = @ + 1]
    /\ OthersUnchanged

NextSpam ==
    \/ Tick
    \/ \E user_id \in Senders : AntiSpamCall(user_id)

SpecSpam == Init /\ [][NextSpam]_vars

\* The messages of the log that fall into the window of time_window seconds
\* ending at time t.
in_window(log, t) == {i \in DOMAIN log : log[i] > t - time_window /\ log[i] <= t}

\* C39: at most rate_limit messages of a non-admin user reach a handler
\* within any window of time_window seconds; a message beyond the limit is
\* blocked without being recorded; a user is admitted again once earlier
\* messages have left the window (a message is blocked only while the window
\* is full); admins are never limited.
C39_RateLimitPerWindow ==
    /\ [](\A u \in Senders \ ADMIN_IDS :
            /\ \A t \in 0..MaxTime :
                  Cardinality(in_window(antispam.handled[u], t)) <= rate_limit
            /\ \A i \in DOMAIN antispam.message_history[u] :
                  \E j \in DOMAIN antispam.handled[u] :
                      antispam.handled[u][j] = antispam.message_history[u][i]
            /\ Len(antispam.message_history[u]) <= Len(antispam.handled[u]))
    /\ [](\A u \in ADMIN_IDS : antispam.blocked[u] = 0)
    /\ [][\A u \in Senders \ ADMIN_IDS :
            antispam'.blocked[u] > antispam.blocked[u] =>
                /\ Cardinality(in_window(antispam.handled[u], antispam.now)) = rate_limit
                /\ Len(antispam'.message_history[u]) <= Len(antispam.message_history[u])
                /\ antispam'.handled[u] = antispam.handled[u]]_vars

\* The user was blocked and admitted again later; the admin sent more than
\* rate_limit messages within one second and all of them were handled.
C39_BlockedThenAdmittedAgain ==
    /\ antispam.blocked[Buyer] > 0
    /\ Len(antispam.handled[Buyer]) > rate_limit
    /\ Len(antispam.handled[AdminId]) > rate_limit
    /\ antispam.handled[AdminId][1] = antispam.handled[AdminId][Len(antispam.handled[AdminId])]

=============================================================================
